---- MODULE Spec2Model ----
(***************************************************************************)
(* Model of ralfinho's iteration/interrupt state machine: runner.Run with   *)
(* execWithInterrupt and sleepWithInterrupt, the interrupt sources of       *)
(* executeRun (the OS signal forwarder and the dashboard's Ctrl+C), and the *)
(* continue/stop round trip between the Runner and the live dashboard.      *)
(*                                                                          *)
(* Both call sites of runner.Run pass context.Background(), a non-nil       *)
(* Interrupt channel, and non-nil OnInterrupt and OnIteration callbacks.    *)
(* The Done channel of context.Background() is nil, so the ctx.Done() case  *)
(* of sleepWithInterrupt and the parent-cancellation path of the            *)
(* per-iteration context are never ready and have no action here.           *)
(***************************************************************************)
EXTENDS Integers, Sequences, FiniteSets, TLC

(* ---- bounds ---- *)
MaxMaxIter == 2
MaxPasses == 2
LogWindow == 4
MaxRawLen == 4
MaxFed == 4
MaxOffset == 4
MaxLines == 2
MaxAnswers == 2
MaxWrapLen == 5
MaxWidth == 3
MaxConvEvents == 5

(* ---- values ---- *)
Nil == "nil"
ExecErrs == {"exit status 1"}
UnknownAgentErr == "unknown agent"
KilledErr == "signal: killed"
CanceledErr == "context canceled"
Agents == {"pi", "bogus"}
KnownAgents == {"pi", "claude", "codex"}
Streams == {"stdout", "stderr"}
DecisionErrs == {"read error"}
RawErr == "append raw output"
EventsErr == "append events"
SessionErr == "append session line"
PersistErrs == {RawErr, EventsErr, SessionErr}
TuiErr == "program error"
MaxIterErr == "max iterations must be >= 0"

StatusCompleted == "completed"
StatusFailed == "failed"
StatusInterrupted == "interrupted"
StatusMaxIterationsReached == "max_iterations_reached"

\* A line of agent output, abstracted to the two facts HasCompletionMarker
\* tests: whether it contains the sentinel, and whether its lower-cased text
\* contains "reply with:".
PlainLine == [marker |-> FALSE, replyWith |-> FALSE]
GenuineLine == [marker |-> TRUE, replyWith |-> FALSE]
InstructionLine == [marker |-> TRUE, replyWith |-> TRUE]

Outputs == {<<PlainLine>>, <<PlainLine, GenuineLine>>, <<InstructionLine>>}

\* Agent output as text: a sequence of pieces, each a newline, a blank, or a
\* run of characters without newlines or blanks at its ends.
NL == "\n"
SP == " "
Sentinel == "<promise>COMPLETE</promise>"
SentinelLower == "<promise>complete</promise>"
ReplyWith == "reply with:"
ReplyWithTitle == "Reply With:"
JsonObject == "{\"type\":\"assistant\"}"
JsonNull == "null"
Words == "not json at all"
Alphabet == {NL, SP, Sentinel, SentinelLower, ReplyWith, ReplyWithTitle,
             JsonObject, JsonNull, Words}
Texts == UNION {[1..n -> Alphabet] : n \in 0..MaxRawLen}

InterruptCap == 1
SignalCap == 1
ContinueCap == 1
LineCap == 128

VARIABLES
  maxIterations, noTUI, agent, faulty,
  artifactErr, exitErr,
  pc, iteration, completed, lastOutput, output, err, interrupted, site,
  result, runErr,
  wpc, interruptedCh, iterCancelled, stop, orphans,
  signalCh, fwd, interruptCh,
  inbox, awaitingContinue, running, continueCh, quit,
  reports, decisions, log, count, dropped, burst, requested,
  rawOutput, parsed, markerFound, applied,
  converter, events, blocks, activeToolIdx, confirmQuit, confirmCtrlC, quitCmd, fed,
  cursor, detailScroll, streamScroll, mainScroll, focusedPane, rawMode,
  autoScroll, mainAutoScroll, height,
  liveEvents, selected, detailPos, focus, rawView, liveHeight,
  proc, pipes, wrote, rpc, held, readWG, lineCh, lineClosed, closes, panicked,
  mpc, spc, ln, sout, called,
  stdin, ppc, promptLine, promptCont, promptErr, prompts, eof,
  wrapLine, wrapWidth, wrapped, wrapDone,
  conv, convHist, convOut

cfgVars == <<maxIterations, noTUI, agent, faulty>>
persistVars == <<artifactErr, exitErr>>
runVars == <<pc, iteration, completed, lastOutput, output, err, interrupted, site, result, runErr>>
watchVars == <<wpc, interruptedCh, iterCancelled, stop, orphans>>
sigVars == <<signalCh, fwd>>
tuiVars == <<inbox, awaitingContinue, running, continueCh, quit>>
histVars == <<reports, decisions, log, count, dropped, burst, requested>>
decodeVars == <<rawOutput, parsed, markerFound, applied>>
viewVars == <<cursor, detailScroll, streamScroll, mainScroll, focusedPane, rawMode,
              autoScroll, mainAutoScroll, height>>
displayVars == <<converter, events, blocks, activeToolIdx, confirmQuit,
                 confirmCtrlC, quitCmd, fed, viewVars>>
listVars == <<liveEvents, selected, detailPos, focus, rawView, liveHeight>>
ioVars == <<pipes, wrote, rpc, held, readWG, lineCh, lineClosed, closes, panicked,
            mpc, spc, ln, sout, called>>
streamVars == <<proc, ioVars>>
promptVars == <<stdin, ppc, promptLine, promptCont, promptErr, prompts, eof>>
wrapVars == <<wrapLine, wrapWidth, wrapped, wrapDone>>
convVars == <<conv, convHist, convOut>>
auxVars == <<promptVars, wrapVars, convVars>>
vars == <<cfgVars, persistVars, runVars, watchVars, sigVars, interruptCh, tuiVars, histVars,
          decodeVars, displayVars, listVars, streamVars, auxVars>>

(* ---- pure helpers ---- *)

\* select { case ch <- v: default: } on a channel of capacity cap.
TrySendQueued(ch, v, cap) == Append(ch, v)
TrySend(ch, v, cap) == IF Len(ch) < cap THEN Append(ch, v) ELSE ch

HasCompletionMarkerNoSkip(raw) == \E i \in 1..Len(raw) : raw[i].marker
HasCompletionMarker(raw) ==
  \E i \in 1..Len(raw) : ~raw[i].replyWith /\ raw[i].marker

MaxReachedOffByOne(comp, maxIt) == maxIt > 0 /\ comp > maxIt
MaxReached(comp, maxIt) == maxIt > 0 /\ comp >= maxIt

ResultAlwaysCompleted(comp, status, out) ==
  [IterationsCompleted |-> comp, Status |-> StatusCompleted, LastOutput |-> out]
Result(comp, status, out) ==
  [IterationsCompleted |-> comp, Status |-> status, LastOutput |-> out]
NoResult == Result(0, "", <<>>)

(* ---- text functions ---- *)

\* strings.ToLower on a piece.
ToLower(piece) ==
  CASE piece = ReplyWithTitle -> ReplyWith
    [] piece = Sentinel -> SentinelLower
    [] piece = "Y" -> "y"
    [] piece = "E" -> "e"
    [] piece = "S" -> "s"
    [] piece = "N" -> "n"
    [] piece = "O" -> "o"
    [] OTHER -> piece

\* bufio.Scanner with ScanLines: the lines of text without their newlines;
\* a last line needs no newline, and nothing follows a final newline.
FirstNL(text) ==
  IF \E i \in DOMAIN text : text[i] = NL
    THEN CHOOSE i \in DOMAIN text : text[i] = NL /\ \A j \in 1..(i - 1) : text[j] # NL
    ELSE 0
RECURSIVE ScanLines(_)
ScanLines(text) ==
  IF text = <<>> THEN <<>>
  ELSE IF FirstNL(text) = 0 THEN <<text>>
  ELSE <<SubSeq(text, 1, FirstNL(text) - 1)>>
         \o ScanLines(SubSeq(text, FirstNL(text) + 1, Len(text)))

\* strings.TrimSpace
RECURSIVE TrimSpace(_)
TrimSpace(line) ==
  IF line = <<>> THEN line
  ELSE IF Head(line) \in {SP, NL} THEN TrimSpace(Tail(line))
  ELSE IF line[Len(line)] \in {SP, NL} THEN TrimSpace(SubSeq(line, 1, Len(line) - 1))
  ELSE line

\* HasCompletionMarker, lines 244-251: the two strings.Contains tests of a line.
LineFacts(line) ==
  [marker |-> \E i \in DOMAIN line : line[i] = Sentinel,
   replyWith |-> \E i \in DOMAIN line : ToLower(line[i]) = ReplyWith]
Facts(text) == [i \in DOMAIN ScanLines(text) |-> LineFacts(ScanLines(text)[i])]

\* json.Unmarshal into a map[string]any: an object, or null (which leaves
\* the map nil and returns no error).
Unmarshals(line) == line \in {<<JsonObject>>, <<JsonNull>>}

\* ParseOutput, lines 30-51: the event of one trimmed, non-empty line.
DecodeLine(line, it) ==
  IF ~Unmarshals(line)
    THEN [Iteration |-> it, Type |-> "raw_line", Content |-> line, Raw |-> <<>>]
    ELSE [Iteration |-> it,
          Type |-> IF line = <<JsonObject>> THEN "assistant" ELSE "json_event",
          Content |-> <<>>, Raw |-> line]

RECURSIVE ParseLinesAborting(_, _)
ParseLinesAborting(lines, it) ==
  IF lines = <<>> THEN <<>>
  ELSE IF TrimSpace(Head(lines)) = <<>> THEN ParseLinesAborting(Tail(lines), it)
  ELSE IF ~Unmarshals(TrimSpace(Head(lines))) THEN <<>>
  ELSE <<DecodeLine(TrimSpace(Head(lines)), it)>> \o ParseLinesAborting(Tail(lines), it)
RECURSIVE ParseLines(_, _)
ParseLines(lines, it) ==
  IF lines = <<>> THEN <<>>
  ELSE IF TrimSpace(Head(lines)) = <<>> THEN ParseLines(Tail(lines), it)
  ELSE <<DecodeLine(TrimSpace(Head(lines)), it)>> \o ParseLines(Tail(lines), it)

ParseOutputAborts(text, it) == ParseLinesAborting(ScanLines(text), it)
ParseOutput(text, it) == ParseLines(ScanLines(text), it)

(* ---- history ---- *)

\* What the Runner has done, kept for the properties: log holds its most
\* recent LogWindow events, reports the last iteration report,
\* decisions the last answer of the decision callback, and count the number
\* of events of each kind since Run was called.
Ev(e, n) == [ev |-> e, it |-> n]

Counted == {"execStart", "execReturn", "report", "decideCall", "decideReturn",
            "sleepStart", "sleepEnd", "sleepInterrupted", "return",
            "clean", "markerless", "retry"}

Clean(r) == r.Err = Nil /\ ~r.Interrupted
HasGenuineLine(out) == \E i \in DOMAIN out : out[i] = GenuineLine

Recent(seq, w) ==
  IF Len(seq) <= w THEN seq ELSE SubSeq(seq, Len(seq) - w + 1, Len(seq))

\* The log and the counters after the events evs and the tags (facts about
\* a report or a decision that are counted but are not events).
Logged(evs) == Recent(log \o evs, LogWindow)
Tally(evs, tags) ==
  [n \in Counted |->
     count[n] + Cardinality({i \in DOMAIN evs : evs[i].ev = n})
              + (IF n \in tags THEN 1 ELSE 0)]

\* Run, line 70: the IterationReport handed to OnIteration.
IterationReportDropsFlag(it, out, e, intr) ==
  [Iteration |-> it, Output |-> out, Err |-> e, Interrupted |-> FALSE]
IterationReport(it, out, e, intr) ==
  [Iteration |-> it, Output |-> out, Err |-> e, Interrupted |-> intr]

\* Run, lines 72-90: what follows the iteration report.  next is the place
\* the loop goes to, or the final status when Run returns there.
IterationOutcomeCountsFailed(intr, e, out, comp) ==
  IF intr THEN [completed |-> comp, next |-> "onInterrupt"]
  ELSE IF e # Nil THEN [completed |-> comp + 1, next |-> StatusFailed]
  ELSE IF HasCompletionMarker(out) THEN [completed |-> comp + 1, next |-> StatusCompleted]
  ELSE [completed |-> comp + 1, next |-> "sleep"]
IterationOutcomeSkipsDecision(intr, e, out, comp) ==
  IF intr THEN [completed |-> comp, next |-> "continue"]
  ELSE IF e # Nil THEN [completed |-> comp, next |-> StatusFailed]
  ELSE IF HasCompletionMarker(out) THEN [completed |-> comp + 1, next |-> StatusCompleted]
  ELSE [completed |-> comp + 1, next |-> "sleep"]

IterationOutcomeCountsInterrupted(intr, e, out, comp) ==
  IF intr THEN [completed |-> comp + 1, next |-> "onInterrupt"]
  ELSE IF e # Nil THEN [completed |-> comp, next |-> StatusFailed]
  ELSE IF HasCompletionMarker(out) THEN [completed |-> comp + 1, next |-> StatusCompleted]
  ELSE [completed |-> comp + 1, next |-> "sleep"]
IterationOutcomeMarkerBeforeCount(intr, e, out, comp) ==
  IF intr THEN [completed |-> comp, next |-> "onInterrupt"]
  ELSE IF e # Nil THEN [completed |-> comp, next |-> StatusFailed]
  ELSE IF HasCompletionMarker(out) THEN [completed |-> comp, next |-> StatusCompleted]
  ELSE [completed |-> comp + 1, next |-> "sleep"]
IterationOutcomeErrorFirst(intr, e, out, comp) ==
  IF e # Nil THEN [completed |-> comp, next |-> StatusFailed]
  ELSE IF intr THEN [completed |-> comp, next |-> "onInterrupt"]
  ELSE IF HasCompletionMarker(out) THEN [completed |-> comp + 1, next |-> StatusCompleted]
  ELSE [completed |-> comp + 1, next |-> "sleep"]
IterationOutcome(intr, e, out, comp) ==
  IF intr THEN [completed |-> comp, next |-> "onInterrupt"]
  ELSE IF e # Nil THEN [completed |-> comp, next |-> StatusFailed]
  ELSE IF HasCompletionMarker(out) THEN [completed |-> comp + 1, next |-> StatusCompleted]
  ELSE [completed |-> comp + 1, next |-> "sleep"]

\* Run, line 62: the post statement of the for loop.  It runs on every way
\* to the next pass: the `continue` of line 80 and the end of the body.
NextIterationRetriesSame(it, retry) == IF retry THEN it ELSE it + 1
NextIteration(it, retry) == it + 1

\* Run, lines 73-80 and 97-104: what follows the interrupt decision.
DecisionOutcomeStopContinues(cont, e) ==
  IF e # Nil THEN StatusFailed ELSE "continue"
DecisionOutcomeIgnoresError(cont, e) ==
  IF ~cont THEN StatusInterrupted ELSE "continue"
DecisionOutcome(cont, e) ==
  IF e # Nil THEN StatusFailed
  ELSE IF ~cont THEN StatusInterrupted
  ELSE "continue"

(* ---- persistence of the run's artifacts (executeRun) ---- *)

\* What an append to the artifacts can return.
AppendOutcomes(flt, e) == IF flt THEN {Nil, e} ELSE {Nil}

\* recordArtifactErr, main.go 189-198: the recorded error afterwards.
recordArtifactErrKeepsLast(cur, e) == IF e = Nil THEN cur ELSE e
recordArtifactErr(cur, e) == IF e = Nil THEN cur ELSE IF cur = Nil THEN e ELSE cur

RECURSIVE RecordAll(_, _)
RecordAll(cur, es) ==
  IF es = <<>> THEN cur ELSE RecordAll(recordArtifactErr(cur, Head(es)), Tail(es))

\* appendIteration, main.go 208-225: the raw output, the parsed events (when
\* asked for and there are any) and one line of the session log.
appendIteration(cur, parseEvents, out, raw, evs, sess) ==
  RecordAll(cur, IF parseEvents /\ out # <<>> THEN <<raw, evs, sess>> ELSE <<raw, sess>>)

\* main.go 252-254 and 312-314: the error executeRun returns.
Wrapped(e) ==
  CASE e = RawErr -> "artifact persistence failed: append raw output"
    [] e = EventsErr -> "artifact persistence failed: append events"
    [] e = SessionErr -> "artifact persistence failed: append session line"
FinalErrAlways(re, ae) == IF ae # Nil THEN Wrapped(ae) ELSE re
FinalErr(re, ae) == IF ae # Nil /\ re = Nil THEN Wrapped(ae) ELSE re

(* ---- initial state ---- *)

RunnerIdle ==
  /\ iteration = 0
  /\ completed = 0
  /\ lastOutput = <<>>
  /\ output = <<>>
  /\ err = Nil
  /\ interrupted = FALSE
  /\ site = "none"
  /\ result = NoResult
  /\ runErr = Nil
  /\ wpc = "none"
  /\ interruptedCh = <<>>
  /\ iterCancelled = FALSE
  /\ stop = FALSE
  /\ orphans = 0
  /\ signalCh = <<>>
  /\ fwd = "range"
  /\ interruptCh = <<>>
  /\ inbox = "none"
  /\ awaitingContinue = FALSE
  /\ running = TRUE
  /\ continueCh = <<>>
  /\ quit = FALSE
  /\ reports = <<>>
  /\ count = [n \in Counted |-> 0]
  /\ log = <<>>
  /\ decisions = <<>>
  /\ dropped = FALSE
  /\ burst = -1
  /\ requested = FALSE

\* The command has been started and its arguments are about to be parsed.
RunnerInit ==
  /\ pc = "parse"
  /\ RunnerIdle

\* executeRun, line 187: no persistence error has been recorded, and
\* executeRun has not returned.
PromptIdle ==
  /\ stdin = <<>>
  /\ ppc = "idle"
  /\ promptLine = <<>>
  /\ promptCont = FALSE
  /\ promptErr = Nil
  /\ prompts = 0
  /\ eof = FALSE

WrapIdle ==
  /\ wrapLine = <<>>
  /\ wrapWidth = 0
  /\ wrapped = <<>>
  /\ wrapDone = TRUE

ConvIdle ==
  /\ conv = [assistantText |-> <<>>, inAssistant |-> FALSE]
  /\ convHist = <<>>
  /\ convOut = <<>>

AuxIdle ==
  /\ PromptIdle
  /\ WrapIdle
  /\ ConvIdle

PersistIdle ==
  /\ artifactErr = Nil
  /\ exitErr = "none"

\* No text is being decoded.
DecodeIdle ==
  /\ rawOutput = <<>>
  /\ parsed = <<>>
  /\ markerFound = FALSE
  /\ applied = {}

\* NewEventConverter and NewModel: nothing has been shown yet.
DisplayIdle ==
  /\ converter = [iteration |-> 0, assistantText |-> 0, inAssistant |-> FALSE]
  /\ events = <<>>
  /\ blocks = <<>>
  /\ activeToolIdx = -1
  /\ confirmQuit = FALSE
  /\ confirmCtrlC = FALSE
  /\ quitCmd = FALSE
  /\ fed = 0
  /\ cursor = 0
  /\ detailScroll = 0
  /\ streamScroll = 0
  /\ mainScroll = 0
  /\ focusedPane = 0
  /\ rawMode = FALSE
  /\ autoScroll = TRUE
  /\ mainAutoScroll = TRUE
  /\ height = 0

\* NewLiveModel: the dashboard's event list is empty, the stream has the focus.
ListIdle ==
  /\ liveEvents = <<>>
  /\ selected = 0
  /\ detailPos = 0
  /\ focus = "stream"
  /\ rawView = FALSE
  /\ liveHeight = 0

\* No subprocess has been started; the line channel, the two readers, the
\* closer and the loop of ExecOnceStream are as they are when it begins.
StreamIdle ==
  /\ proc = "none"
  /\ pipes = [s \in Streams |-> <<>>]
  /\ wrote = [s \in Streams |-> 0]
  /\ rpc = [s \in Streams |-> "scan"]
  /\ held = [s \in Streams |-> <<>>]
  /\ readWG = 2
  /\ lineCh = <<>>
  /\ lineClosed = FALSE
  /\ closes = 0
  /\ panicked = FALSE
  /\ mpc = "wait"
  /\ spc = "idle"
  /\ ln = <<>>
  /\ sout = <<>>
  /\ called = <<>>

Init ==
  /\ maxIterations \in -1..MaxMaxIter
  /\ agent \in Agents
  /\ faulty = FALSE
  /\ noTUI \in BOOLEAN
  /\ RunnerInit
  /\ DecodeIdle
  /\ DisplayIdle
  /\ ListIdle
  /\ StreamIdle
  /\ PersistIdle
  /\ AuxIdle

(* ---- the Runner ---- *)

\* parseRunOptions rejects a negative --max-iterations before anything runs.
ParseRunOptions ==
  /\ pc = "parse"
  /\ pc' = IF maxIterations < 0 THEN "usage" ELSE "run"
  /\ UNCHANGED <<cfgVars, auxVars, persistVars, listVars, streamVars, decodeVars, displayVars, iteration, completed, lastOutput, output, err, interrupted,
                 site, result, runErr, watchVars, sigVars, interruptCh, tuiVars, histVars>>

\* Run returns: the Result and the error are fixed.
Return(res, e, evs, tags) ==
  /\ pc' = "returned"
  /\ result' = res
  /\ runErr' = e
  /\ log' = Logged(evs \o <<Ev("return", iteration)>>)
  /\ count' = Tally(evs \o <<Ev("return", iteration)>>, tags)

\* Run, lines 49-62: validation and the loop's init statement.
RunStart ==
  /\ pc = "run"
  /\ IF maxIterations < 0
       THEN /\ Return(NoResult, MaxIterErr, <<>>, {})
            /\ UNCHANGED <<iteration, completed>>
       ELSE /\ pc' = "loop"
            /\ iteration' = 1
            /\ completed' = 0
            /\ UNCHANGED <<result, runErr, log, count>>
  /\ UNCHANGED <<cfgVars, auxVars, persistVars, listVars, streamVars, decodeVars, displayVars, lastOutput, output, err, interrupted, site, watchVars,
                 sigVars, interruptCh, tuiVars, reports, decisions, dropped, burst, requested>>

\* Run, lines 63-65: the loop head finds the maximum reached.
LoopMaxReached ==
  /\ pc = "loop"
  /\ MaxReached(completed, maxIterations)
  /\ Return(Result(completed, StatusMaxIterationsReached, lastOutput), Nil, <<>>, {})
  /\ UNCHANGED <<cfgVars, auxVars, persistVars, listVars, streamVars, decodeVars, displayVars, iteration, completed, lastOutput, output, err, interrupted,
                 site, watchVars, sigVars, interruptCh, tuiVars, reports, decisions, dropped, burst, requested>>

\* Run line 67 and execWithInterrupt lines 121-139: the per-iteration
\* context, the two channels and the watcher are created and execFn is called.
\* ExecOnceStream starts a subprocess for the three agent names of its switch
\* (lines 183-205) and none for any other name.
ExecStart ==
  /\ pc = "loop"
  /\ ~MaxReached(completed, maxIterations)
  /\ iteration <= MaxPasses
  /\ pc' = "exec"
  /\ wpc' = "select"
  /\ interruptedCh' = <<>>
  /\ iterCancelled' = FALSE
  /\ stop' = FALSE
  /\ proc' = IF agent \in KnownAgents THEN "running" ELSE "none"
  /\ log' = Logged(<<Ev("execStart", iteration)>>)
  /\ count' = Tally(<<Ev("execStart", iteration)>>, {})
  /\ UNCHANGED <<cfgVars, auxVars, persistVars, listVars, ioVars, decodeVars, displayVars, iteration, completed, lastOutput, output, err, interrupted,
                 site, result, runErr, orphans, sigVars, interruptCh, tuiVars,
                 reports, decisions, dropped, burst, requested>>

\* execWithInterrupt lines 139-140: execFn returns some output and error
\* (the subprocess may exit on its own or be killed by the cancellation),
\* then stop is closed.  For an unknown agent name ExecOnceStream returns
\* its "unknown agent" error and no output (line 191).  Under the dashboard
\* the lines of the output have been parsed and appended to the artifacts
\* as they came (main.go 262-270).
ExecReturn ==
  /\ pc = "exec"
  /\ IF proc = "none"
       THEN output' = <<>> /\ err' = UnknownAgentErr
       ELSE \E out \in Outputs, e \in ExecErrs \cup {Nil} :
              /\ output' = out
              /\ err' = e
  /\ proc' = IF proc = "none" THEN "none" ELSE "gone"
  /\ \E evs \in AppendOutcomes(faulty, EventsErr) :
       artifactErr' = IF ~noTUI /\ proc # "none" THEN recordArtifactErr(artifactErr, evs)
                      ELSE artifactErr
  /\ stop' = TRUE
  /\ pc' = "drain"
  /\ log' = Logged(<<Ev("execReturn", iteration)>>)
  /\ count' = Tally(<<Ev("execReturn", iteration)>>, {})
  /\ UNCHANGED <<cfgVars, auxVars, exitErr, listVars, ioVars, decodeVars, displayVars, iteration, completed, lastOutput, interrupted, site, result,
                 runErr, wpc, interruptedCh, iterCancelled, orphans, sigVars,
                 interruptCh, tuiVars, reports, decisions, dropped, burst, requested>>

\* execWithInterrupt lines 142-149 and the deferred cancel: the non-blocking
\* receive from interruptedCh decides wasInterrupted.  A watcher that has not
\* finished outlives the call: one still at its select can later take a
\* notification (its stop and Done cases are ready as well, and select picks
\* among ready cases at random); one that has taken a notification but not
\* yet sent on interruptedCh sends into a channel nobody reads any more.
ExecDrain ==
  /\ pc = "drain"
  /\ interrupted' = (Len(interruptedCh) > 0)
  /\ interruptedCh' = <<>>
  /\ iterCancelled' = TRUE
  /\ lastOutput' = output
  /\ orphans' = IF wpc = "select" THEN orphans + 1 ELSE orphans
  /\ wpc' = "none"
  /\ pc' = "report"
  /\ UNCHANGED <<cfgVars, auxVars, persistVars, listVars, streamVars, decodeVars, displayVars, iteration, completed, output, err, site, result, runErr,
                 stop, sigVars, interruptCh, tuiVars, histVars>>

\* Run, lines 69-71: OnIteration.  With the dashboard the callback hands an
\* IterationMessage to the program's event loop (program.Send blocks until
\* the loop takes the message).  Before that the callback appends the
\* iteration to the artifacts (main.go 245-247 and 295-297).
Report ==
  /\ pc = "report"
  /\ noTUI \/ inbox = "none"
  /\ \E raw \in AppendOutcomes(faulty, RawErr), evs \in AppendOutcomes(faulty, EventsErr),
        sess \in AppendOutcomes(faulty, SessionErr) :
       artifactErr' = appendIteration(artifactErr, noTUI, output, raw, evs, sess)
  /\ LET r == IterationReport(iteration, output, err, interrupted) IN
       /\ reports' = <<r>>
       /\ log' = Logged(<<Ev("report", iteration)>>)
       /\ count' = Tally(<<Ev("report", iteration)>>,
                         IF Clean(r)
                           THEN IF HasGenuineLine(r.Output)
                                  THEN {"clean"} ELSE {"clean", "markerless"}
                           ELSE {})
  /\ inbox' = IF noTUI THEN inbox ELSE "iteration"
  /\ pc' = "branch"
  /\ UNCHANGED <<cfgVars, auxVars, exitErr, listVars, streamVars, decodeVars, displayVars, iteration, completed, lastOutput, output, err, interrupted,
                 site, result, runErr, watchVars, sigVars, interruptCh,
                 awaitingContinue, running, continueCh, quit, decisions, dropped, burst, requested>>

\* Run, lines 72-92: the branch after the report, up to the next call that
\* can block (the decision callback, the sleep) or to the return.
Branch ==
  /\ pc = "branch"
  /\ LET o == IterationOutcome(interrupted, err, output, completed) IN
       /\ completed' = o.completed
       /\ CASE o.next = "onInterrupt" ->
                 /\ pc' = "onInterrupt"
                 /\ site' = "exec"
                 /\ log' = Logged(<<Ev("decideCall", iteration)>>)
                 /\ count' = Tally(<<Ev("decideCall", iteration)>>, {})
                 /\ UNCHANGED <<iteration, result, runErr>>
            [] o.next = "sleep" ->
                 /\ pc' = "sleep"
                 /\ log' = Logged(<<Ev("sleepStart", iteration)>>)
                 /\ count' = Tally(<<Ev("sleepStart", iteration)>>, {})
                 /\ UNCHANGED <<iteration, site, result, runErr>>
            [] o.next = "continue" ->
                 /\ pc' = "loop"
                 /\ iteration' = NextIteration(iteration, TRUE)
                 /\ UNCHANGED <<site, result, runErr, log, count>>
            [] o.next = StatusFailed ->
                 /\ Return(Result(o.completed, StatusFailed, lastOutput), err, <<>>, {})
                 /\ UNCHANGED <<iteration, site>>
            [] o.next = StatusCompleted ->
                 /\ Return(Result(o.completed, StatusCompleted, lastOutput), Nil, <<>>, {})
                 /\ UNCHANGED <<iteration, site>>
  /\ UNCHANGED <<cfgVars, auxVars, persistVars, listVars, streamVars, decodeVars, displayVars, lastOutput, output, err, interrupted, watchVars, sigVars,
                 interruptCh, tuiVars, reports, decisions, dropped, burst, requested>>

\* Run, lines 74-80 and 98-104: the decision callback has returned (cont, e).
\* Both `continue` (line 80) and falling off the loop body (line 105) run the
\* loop's post statement iteration++ before the next pass.
ApplyDecision(cont, e) ==
  LET st == DecisionOutcome(cont, e)
      evs == <<Ev("decideReturn", iteration)>>
      tags == IF site = "exec" /\ cont /\ e = Nil THEN {"retry"} ELSE {} IN
  /\ decisions' = <<[Iteration |-> iteration, site |-> site,
                     cont |-> cont, err |-> e, completed |-> completed]>>
  /\ CASE st = StatusFailed ->
           /\ Return(Result(completed, StatusFailed, lastOutput), e, evs, tags)
           /\ UNCHANGED iteration
      [] st = StatusInterrupted ->
           /\ Return(Result(completed, StatusInterrupted, lastOutput), Nil, evs, tags)
           /\ UNCHANGED iteration
      [] st = "continue" ->
           /\ pc' = "loop"
           /\ iteration' = NextIteration(iteration, site = "exec")
           /\ log' = Logged(evs)
           /\ count' = Tally(evs, tags)
           /\ UNCHANGED <<result, runErr>>

\* OnInterrupt without the dashboard (main.go 234-244): promptContinue reads
\* the answer from standard input; a read error is returned with cont = false
\* and end of input answers stop.  A decision made without error is written
\* to the session log.
PromptContinue ==
  /\ pc = "onInterrupt"
  /\ noTUI
  /\ \E r \in {<<TRUE, Nil>>, <<FALSE, Nil>>} \cup {<<FALSE, e>> : e \in DecisionErrs} :
       /\ ApplyDecision(r[1], r[2])
       /\ \E sess \in AppendOutcomes(faulty, SessionErr) :
            artifactErr' = IF r[2] = Nil THEN recordArtifactErr(artifactErr, sess)
                           ELSE artifactErr
  /\ UNCHANGED <<cfgVars, auxVars, exitErr, listVars, streamVars, decodeVars, displayVars, completed, lastOutput, output, err, interrupted, site,
                 watchVars, sigVars, interruptCh, tuiVars, reports, dropped,
                 burst, requested>>

\* OnInterrupt with the dashboard (main.go 285-287): program.Send of the
\* ContinuePromptMessage, which blocks until the event loop takes it.
SendContinuePrompt ==
  /\ pc = "onInterrupt"
  /\ ~noTUI
  /\ inbox = "none"
  /\ inbox' = "continuePrompt"
  /\ pc' = "awaitContinue"
  /\ UNCHANGED <<cfgVars, auxVars, persistVars, listVars, streamVars, decodeVars, displayVars, iteration, completed, lastOutput, output, err, interrupted,
                 site, result, runErr, watchVars, sigVars, interruptCh,
                 awaitingContinue, running, continueCh, quit, histVars>>

\* main.go 287-293: cont := <-continueCh; the callback never returns an
\* error, and writes the decision to the session log.
ReceiveContinue ==
  /\ pc = "awaitContinue"
  /\ Len(continueCh) > 0
  /\ continueCh' = Tail(continueCh)
  /\ ApplyDecision(Head(continueCh), Nil)
  /\ \E sess \in AppendOutcomes(faulty, SessionErr) :
       artifactErr' = recordArtifactErr(artifactErr, sess)
  /\ UNCHANGED <<cfgVars, auxVars, exitErr, listVars, streamVars, decodeVars, displayVars, completed, lastOutput, output, err, interrupted, site,
                 watchVars, sigVars, interruptCh, inbox, awaitingContinue, running,
                 quit, reports, dropped, burst, requested>>

\* sleepWithInterrupt, case <-timer.C; then the loop's post statement.
SleepTimer ==
  /\ pc = "sleep"
  /\ pc' = "loop"
  /\ iteration' = NextIteration(iteration, FALSE)
  /\ log' = Logged(<<Ev("sleepEnd", iteration)>>)
  /\ count' = Tally(<<Ev("sleepEnd", iteration)>>, {})
  /\ UNCHANGED <<cfgVars, auxVars, persistVars, listVars, streamVars, decodeVars, displayVars, completed, lastOutput, output, err, interrupted, site,
                 result, runErr, watchVars, sigVars, interruptCh, tuiVars, reports,
                 decisions, dropped, burst, requested>>

\* sleepWithInterrupt, case <-interrupt; then Run line 97 calls the callback.
SleepInterrupted ==
  /\ pc = "sleep"
  /\ Len(interruptCh) > 0
  /\ interruptCh' = Tail(interruptCh)
  /\ pc' = "onInterrupt"
  /\ site' = "sleep"
  /\ log' = Logged(<<Ev("sleepInterrupted", iteration), Ev("decideCall", iteration)>>)
  /\ count' = Tally(<<Ev("sleepInterrupted", iteration), Ev("decideCall", iteration)>>, {})
  /\ UNCHANGED <<cfgVars, auxVars, persistVars, listVars, streamVars, decodeVars, displayVars, iteration, completed, lastOutput, output, err, interrupted,
                 result, runErr, watchVars, sigVars, tuiVars, reports, decisions, dropped, burst, requested>>

\* main.go 300: the goroutine that called Run reports the end to the dashboard.
SendRunFinished ==
  /\ pc = "returned"
  /\ ~noTUI
  /\ inbox = "none"
  /\ inbox' = "runFinished"
  /\ pc' = "finished"
  /\ UNCHANGED <<cfgVars, auxVars, persistVars, listVars, streamVars, decodeVars, displayVars, iteration, completed, lastOutput, output, err, interrupted,
                 site, result, runErr, watchVars, sigVars, interruptCh,
                 awaitingContinue, running, continueCh, quit, histVars>>

\* executeRun returns, main.go 249-255 and 303-315: without the dashboard
\* when Run has returned; with it when program.Run has returned (with or
\* without an error of its own) and the goroutine that called Run is done.
ExecuteRunReturn ==
  /\ exitErr = "none"
  /\ IF noTUI
       THEN /\ pc = "returned"
            /\ exitErr' = FinalErr(runErr, artifactErr)
       ELSE /\ pc = "finished"
            /\ quit
            /\ \E tuiErr \in {Nil, TuiErr} :
                 exitErr' = IF tuiErr # Nil THEN tuiErr ELSE FinalErr(runErr, artifactErr)
  /\ UNCHANGED <<cfgVars, auxVars, artifactErr, listVars, streamVars, decodeVars, displayVars, runVars,
                 watchVars, sigVars, interruptCh, tuiVars, histVars>>

(* ---- the watcher goroutine of execWithInterrupt (lines 126-137) ---- *)

\* case <-interrupt
WatcherTake ==
  /\ wpc = "select"
  /\ Len(interruptCh) > 0
  /\ interruptCh' = Tail(interruptCh)
  /\ wpc' = "got"
  /\ UNCHANGED <<cfgVars, auxVars, persistVars, listVars, streamVars, decodeVars, displayVars, runVars, interruptedCh, iterCancelled, stop, orphans,
                 sigVars, tuiVars, reports, decisions, log, count, dropped, burst, requested>>

\* case <-iterCtx.Done() and case <-stop
WatcherExit ==
  /\ wpc = "select"
  /\ stop \/ iterCancelled
  /\ wpc' = "done"
  /\ UNCHANGED <<cfgVars, auxVars, persistVars, listVars, streamVars, decodeVars, displayVars, runVars, interruptedCh, iterCancelled, stop, orphans,
                 sigVars, interruptCh, tuiVars, histVars>>

\* lines 129-132: the non-blocking send on interruptedCh
WatcherNotify ==
  /\ wpc = "got"
  /\ interruptedCh' = TrySend(interruptedCh, "interrupted", 1)
  /\ wpc' = "sent"
  /\ UNCHANGED <<cfgVars, auxVars, persistVars, listVars, streamVars, decodeVars, displayVars, runVars, iterCancelled, stop, orphans, sigVars,
                 interruptCh, tuiVars, histVars>>

\* line 133: cancel()
WatcherCancel ==
  /\ wpc = "sent"
  /\ iterCancelled' = TRUE
  /\ wpc' = "done"
  /\ UNCHANGED <<cfgVars, auxVars, persistVars, listVars, streamVars, decodeVars, displayVars, runVars, interruptedCh, stop, orphans, sigVars,
                 interruptCh, tuiVars, histVars>>

\* A watcher of an earlier execWithInterrupt call that was still at its
\* select when the call returned: all three cases can be ready.
OrphanTake ==
  /\ orphans > 0
  /\ Len(interruptCh) > 0
  /\ interruptCh' = Tail(interruptCh)
  /\ orphans' = orphans - 1
  /\ UNCHANGED <<cfgVars, auxVars, persistVars, listVars, streamVars, decodeVars, displayVars, runVars, wpc, interruptedCh, iterCancelled, stop,
                 sigVars, tuiVars, reports, decisions, log, count, dropped, burst, requested>>

OrphanExit ==
  /\ orphans > 0
  /\ orphans' = orphans - 1
  /\ UNCHANGED <<cfgVars, auxVars, persistVars, listVars, streamVars, decodeVars, displayVars, runVars, wpc, interruptedCh, iterCancelled, stop,
                 sigVars, interruptCh, tuiVars, histVars>>

(* ---- interrupt sources ---- *)

\* The execution in progress when an interrupt is delivered: its sequence
\* number, or 0 when execFn is not running.
DuringExecution == IF pc = "exec" THEN iteration ELSE 0

\* History of the deliveries: -1 before the first interrupt, k >= 1 while
\* every interrupt so far was delivered during execution k, 0 otherwise.
Burst ==
  IF burst = -1 \/ burst = DuringExecution THEN DuringExecution ELSE 0

\* executeRun is between signal.Notify (main.go 173) and the deferred
\* signal.Stop (main.go 174): it returns when Run has returned or, with the
\* dashboard, when program.Run and then Run have returned.
Notifying ==
  /\ pc \notin {"parse", "usage"}
  /\ IF noTUI THEN pc # "returned" ELSE ~(quit /\ pc = "finished")

\* The OS delivers SIGINT: signal.Notify(signalCh, os.Interrupt) on a channel
\* of capacity 1 (main.go 172-173); the signal package never blocks sending.
OsSignal ==
  /\ Notifying
  /\ signalCh' = TrySend(signalCh, "SIGINT", SignalCap)
  /\ burst' = Burst
  /\ UNCHANGED <<cfgVars, auxVars, persistVars, listVars, streamVars, decodeVars, displayVars, runVars, watchVars, fwd, interruptCh, tuiVars, reports,
                 decisions, log, count, dropped, requested>>

\* main.go 178: for range signalCh
ForwarderReceive ==
  /\ fwd = "range"
  /\ Len(signalCh) > 0
  /\ signalCh' = Tail(signalCh)
  /\ fwd' = "select"
  /\ UNCHANGED <<cfgVars, auxVars, persistVars, listVars, streamVars, decodeVars, displayVars, runVars, watchVars, interruptCh, tuiVars, histVars>>

\* main.go 179-182: select { case interruptCh <- struct{}{}: default: }
ForwarderSend ==
  /\ fwd = "select"
  /\ interruptCh' = TrySend(interruptCh, "interrupt", InterruptCap)
  /\ dropped' = (dropped \/ Len(interruptCh) >= InterruptCap)
  /\ fwd' = "range"
  /\ UNCHANGED <<cfgVars, auxVars, persistVars, listVars, streamVars, decodeVars, displayVars, runVars, watchVars, signalCh, tuiVars, reports,
                 decisions, log, count, burst, requested>>

(* ---- the live dashboard (Model.Update) ---- *)

\* The event loop takes the message a program.Send handed over and runs
\* Update on it: IterationMessage, ContinuePromptMessage, RunFinishedMessage.
UpdateMessage ==
  /\ inbox # "none"
  /\ inbox' = "none"
  /\ awaitingContinue' = IF inbox = "continuePrompt" THEN TRUE ELSE awaitingContinue
  /\ running' = IF inbox = "runFinished" THEN FALSE ELSE running
  /\ requested' = IF inbox = "continuePrompt" THEN FALSE ELSE requested
  /\ UNCHANGED <<cfgVars, auxVars, persistVars, listVars, streamVars, decodeVars, displayVars, runVars, watchVars, sigVars, interruptCh, continueCh,
                 quit, reports, decisions, log, count, dropped, burst>>

Keys == {"y", "n", "ctrl+c", "q", "j"}

\* Update on a tea.KeyMsg, awaitingContinue branch: y and n (in either case)
\* leave the sub-state and answer; the answer sent for a key.
StillAwaitingAlways(k) == TRUE
StillAwaiting(k) == k \notin {"y", "n"}
AnswerInverted(k) == k = "n"
Answer(k) == k = "y"

\* Update on a tea.KeyMsg: the awaitingContinue branch, then ctrl+c and q;
\* the navigation keys do not touch the state modelled here.  requested
\* records a Ctrl+C interrupt request until the continue prompt is shown.
Key(k) ==
  /\ ~noTUI
  /\ pc \notin {"parse", "usage"}
  /\ ~quit
  /\ inbox = "none"
  /\ IF awaitingContinue
       THEN /\ awaitingContinue' = StillAwaiting(k)
            /\ continueCh' = IF k \in {"y", "n"}
                               THEN TrySend(continueCh, Answer(k), ContinueCap)
                               ELSE continueCh
            /\ UNCHANGED <<interruptCh, quit, dropped, burst, requested>>
       ELSE /\ IF k = "ctrl+c" /\ running
                 THEN /\ interruptCh' = TrySend(interruptCh, "interrupt", InterruptCap)
                      /\ dropped' = (dropped \/ Len(interruptCh) >= InterruptCap)
                      /\ burst' = Burst
                      /\ requested' = TRUE
                 ELSE UNCHANGED <<interruptCh, dropped, burst, requested>>
            /\ quit' = (k \in {"ctrl+c", "q"} /\ ~running)
            /\ UNCHANGED <<awaitingContinue, continueCh>>
  /\ UNCHANGED <<cfgVars, auxVars, persistVars, listVars, streamVars, decodeVars, displayVars, runVars, watchVars, sigVars, inbox,
                 running, reports, decisions, log, count>>

KeyPress == \E k \in Keys : Key(k)

(* ---- the live dashboard's event list (Model.Update, Model.clamp) ---- *)

\* An event of the list is known by the number of lines it shows in the
\* details pane, as the raw record and rendered.
LiveEvent(r, t) == [Raw |-> r, Text |-> t]
LiveEvents == {LiveEvent(1, 1), LiveEvent(1, 3)}

\* Model.detailLines: the number of lines of the selected event.
detailLines(evs, sel, rw) ==
  IF Len(evs) = 0 THEN 0
  ELSE IF rw THEN evs[sel + 1].Raw ELSE evs[sel + 1].Text

\* Model.detailsHeight
detailsHeight(h) == IF h - 3 < 3 THEN 3 ELSE h - 3

\* The fields of the dashboard that the list handlers read and write.
List ==
  [events |-> liveEvents, selected |-> selected, detailPos |-> detailPos,
   focus |-> focus, raw |-> rawView, height |-> liveHeight]

ListBecomes(m) ==
  /\ liveEvents' = m.events
  /\ selected' = m.selected
  /\ detailPos' = m.detailPos
  /\ focus' = m.focus
  /\ rawView' = m.raw
  /\ liveHeight' = m.height

\* Model.clamp
clamp(m) ==
  LET n == Len(m.events)
      sel == IF m.selected < 0 THEN 0
             ELSE IF m.selected >= n /\ n > 0 THEN n - 1
             ELSE m.selected
      pos == IF m.detailPos < 0 THEN 0 ELSE m.detailPos
      maxLines == detailLines(m.events, sel, m.raw) IN
    [m EXCEPT !.selected = sel,
              !.detailPos = IF maxLines > 0 /\ pos >= maxLines THEN maxLines - 1 ELSE pos]

\* Update on a StreamEventsMessage (an IterationMessage does the same to the
\* list): the events are appended and the last one is selected.
StreamEvents(evs) ==
  /\ ~noTUI
  /\ ~quit
  /\ Len(liveEvents) + Len(evs) <= MaxFed
  /\ LET all == liveEvents \o evs IN
       ListBecomes(clamp([List EXCEPT !.events = all,
                                      !.selected = IF Len(all) > 0 THEN Len(all) - 1 ELSE @]))
  /\ UNCHANGED <<cfgVars, auxVars, persistVars, streamVars, runVars, watchVars, sigVars, interruptCh, tuiVars,
                 histVars, decodeVars, displayVars>>

ReceiveStreamEvents == \E e \in LiveEvents : StreamEvents(<<e>>)

\* Update on a tea.WindowSizeMsg
LiveHeights == {4, 11}
LiveWindowSize(h) ==
  /\ ~noTUI
  /\ ~quit
  /\ ListBecomes([List EXCEPT !.height = IF h < 6 THEN 6 ELSE h])
  /\ UNCHANGED <<cfgVars, auxVars, persistVars, streamVars, runVars, watchVars, sigVars, interruptCh, tuiVars,
                 histVars, decodeVars, displayVars>>

LiveResize == \E h \in LiveHeights : LiveWindowSize(h)

\* Update on a tea.KeyMsg, lines 288-324: the keys that move around the
\* list and the details, outside the continue prompt, followed by clamp.
MoveKeys == {"tab", "r", "g", "G", "j", "k", "ctrl+d", "ctrl+u"}
Moved(m, k) ==
  CASE k = "tab" -> [m EXCEPT !.focus = IF @ = "stream" THEN "details" ELSE "stream"]
    [] k = "r" -> [m EXCEPT !.raw = ~@]
    [] k = "g" -> IF m.focus = "stream" THEN [m EXCEPT !.selected = 0]
                  ELSE [m EXCEPT !.detailPos = 0]
    [] k = "G" -> IF m.focus = "stream" THEN [m EXCEPT !.selected = Len(m.events) - 1]
                  ELSE [m EXCEPT !.detailPos = detailLines(m.events, m.selected, m.raw)]
    [] k \in {"j", "down"} -> IF m.focus = "stream" THEN [m EXCEPT !.selected = @ + 1]
                              ELSE [m EXCEPT !.detailPos = @ + 1]
    [] k \in {"k", "up"} -> IF m.focus = "stream" THEN [m EXCEPT !.selected = @ - 1]
                            ELSE [m EXCEPT !.detailPos = @ - 1]
    [] k = "ctrl+d" -> [m EXCEPT !.detailPos = @ + detailsHeight(m.height) \div 2]
    [] k = "ctrl+u" -> [m EXCEPT !.detailPos = @ - detailsHeight(m.height) \div 2]
    [] OTHER -> m

Move(k) ==
  /\ ~noTUI
  /\ ~quit
  /\ ~awaitingContinue
  /\ ListBecomes(clamp(Moved(List, k)))
  /\ selected' <= MaxOffset
  /\ detailPos' <= MaxOffset
  /\ UNCHANGED <<cfgVars, auxVars, persistVars, streamVars, runVars, watchVars, sigVars, interruptCh, tuiVars,
                 histVars, decodeVars, displayVars>>

PressMoveKey == \E k \in MoveKeys : Move(k)

ListInit ==
  /\ maxIterations = 0
  /\ agent = "pi"
  /\ faulty = FALSE
  /\ noTUI = FALSE
  /\ RunnerInit
  /\ DecodeIdle
  /\ DisplayIdle
  /\ ListIdle
  /\ StreamIdle
  /\ PersistIdle
  /\ AuxIdle

ListNext ==
  \/ ReceiveStreamEvents
  \/ LiveResize
  \/ PressMoveKey

ListSpec == ListInit /\ [][ListNext]_vars

(* ---- decoding of agent output ---- *)

\* appendIteration (main.go 208-213): the iteration's output is decoded.
AppendIteration ==
  /\ "ParseOutput" \notin applied
  /\ parsed' = ParseOutput(rawOutput, 1)
  /\ applied' = applied \cup {"ParseOutput"}
  /\ UNCHANGED <<cfgVars, auxVars, persistVars, listVars, streamVars, runVars, watchVars, sigVars, interruptCh, tuiVars, histVars,
                 displayVars, rawOutput, markerFound>>

\* Run, line 88: the completion test of a clean iteration's output.
CheckMarker ==
  /\ "HasCompletionMarker" \notin applied
  /\ markerFound' = HasCompletionMarker(Facts(rawOutput))
  /\ applied' = applied \cup {"HasCompletionMarker"}
  /\ UNCHANGED <<cfgVars, auxVars, persistVars, listVars, streamVars, runVars, watchVars, sigVars, interruptCh, tuiVars, histVars,
                 displayVars, rawOutput, parsed>>

DecodeInit ==
  /\ maxIterations = 0
  /\ agent = "pi"
  /\ faulty = FALSE
  /\ noTUI = TRUE
  /\ RunnerInit
  /\ rawOutput \in Texts
  /\ parsed = <<>>
  /\ markerFound = FALSE
  /\ applied = {}
  /\ DisplayIdle
  /\ ListIdle
  /\ StreamIdle
  /\ PersistIdle
  /\ AuxIdle

DecodeNext ==
  \/ AppendIteration
  \/ CheckMarker

DecodeSpec == DecodeInit /\ [][DecodeNext]_vars

(* ---- the event view (tui.Model and EventConverter) ---- *)

\* Text is measured in lines: the accumulated assistant text is the number
\* of text deltas written since the last reset, one line each.  The cursor
\* is an index from 0, as in the code; the status line, the model name, the
\* spinner and the width are left out, and no line is wider than its pane.
CallIDs == {"X", "Y"}

RawEvent(type, n, id, isErr) ==
  [Type |-> type, N |-> n, ToolCallID |-> id, IsError |-> isErr]

\* The events the agent and the Runner can send next: the Runner announces
\* iterations in sequence, the agent's events come in any order.
RawEvents(c) ==
  {RawEvent("iteration", c.iteration + 1, "", FALSE)}
    \cup {RawEvent(t, 0, "", FALSE) :
            t \in {"message_start", "text_delta", "message_end", "turn_end"}}
    \cup {RawEvent("tool_execution_start", 0, id, FALSE) : id \in CallIDs}
    \cup {RawEvent("tool_execution_end", 0, id, e) : id \in CallIDs, e \in BOOLEAN}

DisplayEvent(type, it, detail, id, isErr) ==
  [Type |-> type, Iteration |-> it, Detail |-> detail, ToolCallID |-> id,
   ToolIsError |-> isErr,
   ToolResultText |-> IF type # "tool_end" THEN "" ELSE IF isErr THEN "failure" ELSE "output"]

MainBlock(kind, it, text, id) ==
  [Kind |-> kind, Iteration |-> it, Text |-> text, ToolCallID |-> id,
   ToolDone |-> FALSE, ToolError |-> FALSE, ToolResult |-> ""]

\* EventConverter.Convert: the converter afterwards and the display events.
Convert(c, ev) ==
  CASE ev.Type = "iteration" ->
         [converter |-> [c EXCEPT !.iteration = ev.N],
          out |-> <<DisplayEvent("iteration", ev.N, 0, "", FALSE)>>]
    [] ev.Type = "message_start" ->
         [converter |-> [c EXCEPT !.assistantText = 0, !.inAssistant = TRUE],
          out |-> <<DisplayEvent("assistant_text", c.iteration, 0, "", FALSE)>>]
    [] ev.Type = "text_delta" ->
         [converter |-> [c EXCEPT !.assistantText = @ + 1],
          out |-> <<DisplayEvent("assistant_text", c.iteration, c.assistantText + 1, "", FALSE)>>]
    [] ev.Type = "message_end" ->
         [converter |-> [c EXCEPT !.inAssistant = FALSE],
          out |-> IF c.inAssistant /\ c.assistantText # 0
                    THEN <<DisplayEvent("assistant_text", c.iteration, c.assistantText, "", FALSE)>>
                    ELSE <<>>]
    [] ev.Type = "tool_execution_start" ->
         [converter |-> c,
          out |-> <<DisplayEvent("tool_start", c.iteration, 0, ev.ToolCallID, FALSE)>>]
    [] ev.Type = "tool_execution_end" ->
         [converter |-> c,
          out |-> <<DisplayEvent("tool_end", c.iteration, 0, ev.ToolCallID, ev.IsError)>>]
    [] ev.Type = "turn_end" ->
         [converter |-> c,
          out |-> <<DisplayEvent("turn_end", c.iteration, 0, "", FALSE)>>]

Last(S) == CHOOSE i \in S : \A j \in S : j <= i

\* Model.buildBlock: the blocks and the active tool index afterwards.
ToolBlocks(bs, id) ==
  {i \in DOMAIN bs : bs[i].Kind = "tool_call" /\ bs[i].ToolCallID = id}
BuildBlock(bs, idx, de) ==
  CASE de.Type = "iteration" ->
         [blocks |-> Append(bs, MainBlock("iteration", de.Iteration, 0, "")),
          activeToolIdx |-> idx]
    [] de.Type = "assistant_text" ->
         [blocks |->
            IF Len(bs) > 0 /\ bs[Len(bs)].Kind = "assistant_text"
                 /\ bs[Len(bs)].Iteration = de.Iteration
              THEN [bs EXCEPT ![Len(bs)].Text = de.Detail]
              ELSE Append(bs, MainBlock("assistant_text", de.Iteration, de.Detail, "")),
          activeToolIdx |-> idx]
    [] de.Type = "tool_start" ->
         [blocks |-> Append(bs, MainBlock("tool_call", de.Iteration, 0, de.ToolCallID)),
          activeToolIdx |-> Len(bs)]
    [] de.Type = "tool_end" ->
         [blocks |->
            IF ToolBlocks(bs, de.ToolCallID) = {} THEN bs
            ELSE [bs EXCEPT ![Last(ToolBlocks(bs, de.ToolCallID))] =
                    [@ EXCEPT !.ToolDone = TRUE,
                              !.ToolResult = de.ToolResultText,
                              !.ToolError = de.ToolIsError]],
          activeToolIdx |-> -1]
    [] de.Type = "info" ->
         [blocks |-> Append(bs, MainBlock("info", 0, de.Detail, "")),
          activeToolIdx |-> idx]
    [] OTHER -> [blocks |-> bs, activeToolIdx |-> idx]

\* Model.updateAssistantBlock
AssistantBlocks(bs, it) ==
  {i \in DOMAIN bs : bs[i].Kind = "assistant_text" /\ bs[i].Iteration = it}
UpdateAssistantBlock(bs, de) ==
  IF AssistantBlocks(bs, de.Iteration) = {} THEN bs
  ELSE [bs EXCEPT ![Last(AssistantBlocks(bs, de.Iteration))].Text = de.Detail]

\* Model.addDisplayEvent: an assistant_text event is merged into the last
\* event of the list when that is an assistant_text event of the same
\* iteration; every other event is appended and gets its block built.
MergesNever(evs, de) == FALSE
Merges(evs, de) ==
  /\ de.Type = "assistant_text"
  /\ Len(evs) > 0
  /\ evs[Len(evs)].Type = "assistant_text"
  /\ evs[Len(evs)].Iteration = de.Iteration

\* autoScrollMain sets the main pane's offset to this value.
Huge == 999999

Max2(a, b) == IF a >= b THEN a ELSE b
Min2(a, b) == IF a <= b THEN a ELSE b

\* The layout helpers.  int(float64(u) * 0.6) is u * 6 \div 10 for the
\* heights used here; below zero both are under the minimum of 5.
usableHeight(h) == h - 2
mainHeight(h) == Max2((usableHeight(h) * 6) \div 10, 5)
bottomHeight(h) == Max2(usableHeight(h) - mainHeight(h), 5)
paneHeight(h) == Max2(bottomHeight(h) - 2, 3)

\* handleKey, ctrl+d and ctrl+u: half the height of the pane, at least 1
PageSize(ph) == Max2(ph \div 2, 1)

\* Model.ensureStreamCursorVisible: the stream offset afterwards.
ensureStreamCursorVisible(c, ss, h) ==
  LET streamH == paneHeight(h) - 1
      up == IF c < ss THEN c ELSE ss IN
    IF streamH <= 0 THEN ss
    ELSE IF c >= up + streamH THEN c - streamH + 1 ELSE up

\* The fields of the Model that the event and key handlers read and write.
Model ==
  [events |-> events, blocks |-> blocks, activeToolIdx |-> activeToolIdx,
   cursor |-> cursor, detailScroll |-> detailScroll, streamScroll |-> streamScroll,
   mainScroll |-> mainScroll, focusedPane |-> focusedPane, rawMode |-> rawMode,
   autoScroll |-> autoScroll, mainAutoScroll |-> mainAutoScroll, height |-> height]

Becomes(m) ==
  /\ events' = m.events
  /\ blocks' = m.blocks
  /\ activeToolIdx' = m.activeToolIdx
  /\ cursor' = m.cursor
  /\ detailScroll' = m.detailScroll
  /\ streamScroll' = m.streamScroll
  /\ mainScroll' = m.mainScroll
  /\ focusedPane' = m.focusedPane
  /\ rawMode' = m.rawMode
  /\ autoScroll' = m.autoScroll
  /\ mainAutoScroll' = m.mainAutoScroll
  /\ height' = m.height

\* The offsets stay within MaxOffset of the top or of Huge.
InRange(o) == (0 <= o /\ o <= MaxOffset) \/ (Huge - MaxOffset <= o /\ o <= Huge + MaxOffset)

\* Model.autoScrollMain
autoScrollMain(m) == IF m.mainAutoScroll THEN [m EXCEPT !.mainScroll = Huge] ELSE m

\* addDisplayEvent, line 235: whether the cursor follows an appended event
FollowsAlways(auto) == TRUE
Follows(auto) == auto

AddDisplayEvent(m, de) ==
  IF Merges(m.events, de)
    THEN autoScrollMain(
           [m EXCEPT !.events = [m.events EXCEPT ![Len(m.events)].Detail = de.Detail],
                     !.blocks = UpdateAssistantBlock(m.blocks, de)])
    ELSE LET b == BuildBlock(m.blocks, m.activeToolIdx, de)
             a == autoScrollMain([m EXCEPT !.events = Append(m.events, de),
                                           !.blocks = b.blocks,
                                           !.activeToolIdx = b.activeToolIdx]) IN
           IF Follows(a.autoScroll)
             THEN [a EXCEPT !.cursor = Len(a.events) - 1,
                            !.detailScroll = 0,
                            !.streamScroll =
                              ensureStreamCursorVisible(Len(a.events) - 1, a.streamScroll, a.height)]
             ELSE a

\* Model.handleRawEvent: Convert, then addDisplayEvent for what it returned.
HandleRawEvent(ev) ==
  /\ ~quitCmd
  /\ fed < MaxFed
  /\ fed' = fed + 1
  /\ LET r == Convert(converter, ev) IN
       /\ converter' = r.converter
       /\ IF r.out = <<>>
            THEN UNCHANGED <<events, blocks, activeToolIdx, viewVars>>
            ELSE Becomes(AddDisplayEvent(Model, r.out[1]))
  /\ UNCHANGED <<cfgVars, auxVars, persistVars, listVars, streamVars, runVars, watchVars, sigVars, interruptCh, tuiVars, histVars,
                 decodeVars, confirmQuit, confirmCtrlC, quitCmd>>

ReceiveRawEvent == \E ev \in RawEvents(converter) : HandleRawEvent(ev)

\* Update on a tea.WindowSizeMsg (the width is not modelled).
Heights == {7, 17}
WindowSize(h) ==
  /\ ~quitCmd
  /\ height' = h
  /\ UNCHANGED <<cfgVars, auxVars, persistVars, listVars, streamVars, runVars, watchVars, sigVars, interruptCh, tuiVars, histVars,
                 decodeVars, converter, events, blocks, activeToolIdx, confirmQuit,
                 confirmCtrlC, quitCmd, fed, cursor, detailScroll, streamScroll,
                 mainScroll, focusedPane, rawMode, autoScroll, mainAutoScroll>>

Resize == \E h \in Heights : WindowSize(h)

\* The keys pressed while raw events are being fed: the quit keys and a key
\* that has no binding.
ModelKeys == {"q", "ctrl+c", "y", "x"}
\* All the keys that have a binding (down and up are handled as j and k).
NavKeys == {"j", "k", "g", "G", "ctrl+d", "ctrl+u", "tab", "r"}
AllKeys == ModelKeys \cup NavKeys

\* Model.handleKey, lines 219-242: the key that confirms an armed quit.
ConfirmKeySameKey(ctrlC) == IF ctrlC THEN "ctrl+c" ELSE "q"
ConfirmKey(ctrlC) == IF ctrlC THEN "ctrl+c" ELSE "y"

\* Model.handleKey, lines 347-448: the switch over the keys other than q
\* and ctrl+c, outside the quit confirmation.
NormalKey(m, k) ==
  LET n == Len(m.events)
      ph == paneHeight(m.height)
      mh == mainHeight(m.height) IN
  CASE k \in {"j", "down"} ->
         IF m.focusedPane = 0
           THEN [m EXCEPT !.mainScroll = @ + 1, !.mainAutoScroll = FALSE]
         ELSE IF m.focusedPane = 1 /\ n > 0
           THEN LET c == IF m.cursor < n - 1 THEN m.cursor + 1 ELSE m.cursor IN
                  [m EXCEPT !.cursor = c,
                            !.detailScroll = IF m.cursor < n - 1 THEN 0 ELSE @,
                            !.autoScroll = (c >= n - 1),
                            !.streamScroll = ensureStreamCursorVisible(c, @, m.height)]
         ELSE IF m.focusedPane = 2
           THEN [m EXCEPT !.detailScroll = @ + 1]
         ELSE m
    [] k \in {"k", "up"} ->
         IF m.focusedPane = 0
           THEN [m EXCEPT !.mainScroll = IF @ > 0 THEN @ - 1 ELSE @,
                          !.mainAutoScroll = FALSE]
         ELSE IF m.focusedPane = 1
           THEN LET c == IF m.cursor > 0 THEN m.cursor - 1 ELSE m.cursor IN
                  [m EXCEPT !.cursor = c,
                            !.detailScroll = IF m.cursor > 0 THEN 0 ELSE @,
                            !.autoScroll = FALSE,
                            !.streamScroll = ensureStreamCursorVisible(c, @, m.height)]
         ELSE IF m.focusedPane = 2
           THEN [m EXCEPT !.detailScroll = IF @ > 0 THEN @ - 1 ELSE @]
         ELSE m
    [] k = "g" ->
         IF m.focusedPane = 0
           THEN [m EXCEPT !.mainScroll = 0, !.mainAutoScroll = FALSE]
         ELSE IF m.focusedPane = 1
           THEN [m EXCEPT !.cursor = 0, !.streamScroll = 0, !.detailScroll = 0,
                          !.autoScroll = FALSE]
         ELSE m
    [] k = "G" ->
         IF m.focusedPane = 0
           THEN [m EXCEPT !.mainScroll = Huge, !.mainAutoScroll = TRUE]
         ELSE IF m.focusedPane = 1 /\ n > 0
           THEN [m EXCEPT !.cursor = n - 1,
                          !.detailScroll = 0,
                          !.autoScroll = TRUE,
                          !.streamScroll = ensureStreamCursorVisible(n - 1, @, m.height)]
         ELSE m
    [] k = "ctrl+d" ->
         IF m.focusedPane = 0
           THEN [m EXCEPT !.mainScroll = @ + PageSize(mh), !.mainAutoScroll = FALSE]
           ELSE [m EXCEPT !.detailScroll = @ + PageSize(ph)]
    [] k = "ctrl+u" ->
         IF m.focusedPane = 0
           THEN [m EXCEPT !.mainScroll = Max2(@ - PageSize(mh), 0),
                          !.mainAutoScroll = FALSE]
           ELSE [m EXCEPT !.detailScroll = Max2(@ - PageSize(ph), 0)]
    [] k = "tab" -> [m EXCEPT !.focusedPane = (@ + 1) % 3]
    [] k = "r" -> [m EXCEPT !.rawMode = ~@]
    [] OTHER -> m

\* handleKey, lines 329-330: a key that cancels an armed quit is dropped
CancelKeyFallsThrough(m, k) == NormalKey(m, k)
CancelKey(m, k) == m

\* Model.handleKey: the quit confirmation first, then the switch.
HandleKey(k) ==
  /\ ~quitCmd
  /\ IF confirmQuit
       THEN IF k = ConfirmKey(confirmCtrlC)
              THEN /\ quitCmd' = TRUE
                   /\ UNCHANGED <<confirmQuit, confirmCtrlC, events, blocks,
                                  activeToolIdx, viewVars>>
              ELSE /\ confirmQuit' = FALSE
                   /\ Becomes(CancelKey(Model, k))
                   /\ UNCHANGED <<confirmCtrlC, quitCmd>>
       ELSE IF k \in {"q", "ctrl+c"}
              THEN /\ confirmQuit' = TRUE
                   /\ confirmCtrlC' = (k = "ctrl+c")
                   /\ UNCHANGED <<quitCmd, events, blocks, activeToolIdx, viewVars>>
              ELSE /\ Becomes(NormalKey(Model, k))
                   /\ InRange(mainScroll')
                   /\ InRange(detailScroll')
                   /\ UNCHANGED <<confirmQuit, confirmCtrlC, quitCmd>>
  /\ UNCHANGED <<cfgVars, auxVars, persistVars, listVars, streamVars, runVars, watchVars, sigVars, interruptCh, tuiVars, histVars,
                 decodeVars, converter, fed>>

PressKey == \E k \in ModelKeys : HandleKey(k)
PressAnyKey == \E k \in AllKeys : HandleKey(k)

\* What View draws: the number of content lines of each pane and the offset
\* its render function uses to pick the visible ones.
BlockLines(b) ==
  CASE b.Kind = "iteration" -> 1
    [] b.Kind = "assistant_text" -> b.Text
    [] b.Kind = "tool_call" -> IF b.ToolDone /\ b.ToolResult # "" THEN 5 ELSE 3
    [] b.Kind = "info" -> b.Text
    [] OTHER -> 0

RECURSIVE SumLines(_)
SumLines(bs) == IF bs = <<>> THEN 0 ELSE BlockLines(Head(bs)) + SumLines(Tail(bs))

Rendered(b) == BlockLines(b) > 0

\* renderMain, lines 533-556: the sections are joined by an empty line.
MainLineCount(m) ==
  LET sections == SelectSeq(m.blocks, Rendered) IN
    IF sections = <<>> THEN 0 ELSE SumLines(sections) + Len(sections) - 1

\* renderDetail, lines 729-751
DetailLineCount(m) ==
  IF 0 <= m.cursor /\ m.cursor < Len(m.events)
    THEN LET d == m.events[m.cursor + 1].Detail IN
           IF m.rawMode THEN 4 + Max2(d, 1) ELSE Max2(d, 1)
    ELSE 1

MaxScroll(lines, visible) == Max2(lines - visible, 0)

\* renderMain, lines 552-565
MainScrollUsed(m) ==
  Max2(Min2(m.mainScroll, MaxScroll(MainLineCount(m), mainHeight(m.height) - 1)), 0)

\* renderDetail, lines 751-763
DetailScrollUsed(m) ==
  Min2(m.detailScroll, MaxScroll(DetailLineCount(m), paneHeight(m.height) - 1))

\* renderStream, line 670
StreamScrollUsed(m) == m.streamScroll

DisplayInit ==
  /\ maxIterations = 0
  /\ agent = "pi"
  /\ faulty = FALSE
  /\ noTUI = FALSE
  /\ RunnerInit
  /\ DecodeIdle
  /\ DisplayIdle
  /\ ListIdle
  /\ StreamIdle
  /\ PersistIdle
  /\ AuxIdle

DisplayNext ==
  \/ ReceiveRawEvent
  \/ PressKey

DisplaySpec == DisplayInit /\ [][DisplayNext]_vars

\* The view under all its keys: the agent starts tool calls while the user
\* moves around and resizes the terminal.
ViewRawEvents == {RawEvent("tool_execution_start", 0, "X", FALSE)}

ReceiveViewEvent == \E ev \in ViewRawEvents : HandleRawEvent(ev)

ViewNext ==
  \/ ReceiveViewEvent
  \/ PressAnyKey
  \/ Resize

ViewSpec == DisplayInit /\ [][ViewNext]_vars

(* ---- ExecOnceStream and its subprocess ---- *)

\* A line of output is known by its stream and its position in the stream.
Line(s, n) == [src |-> s, n |-> n]

\* The subprocess writes a line to one of its two streams.
ProcWrite(s) ==
  /\ proc = "running"
  /\ spc # "idle"
  /\ wrote[s] < MaxLines
  /\ wrote' = [wrote EXCEPT ![s] = @ + 1]
  /\ pipes' = [pipes EXCEPT ![s] = Append(@, Line(s, wrote[s] + 1))]
  /\ UNCHANGED <<cfgVars, auxVars, persistVars, listVars, decodeVars, displayVars, runVars, watchVars, sigVars,
                 interruptCh, tuiVars, histVars, proc, rpc, held, readWG, lineCh,
                 lineClosed, closes, panicked, mpc, spc, ln, sout, called>>

\* The subprocess exits on its own, with status 0 or 1.
ProcExit(status) ==
  /\ proc = "running"
  /\ spc # "idle"
  /\ proc' = status
  /\ UNCHANGED <<cfgVars, auxVars, persistVars, listVars, decodeVars, displayVars, runVars, watchVars, sigVars,
                 interruptCh, tuiVars, histVars, ioVars>>

\* exec.CommandContext, lines 185-189: whether a cancelled context kills
\* the subprocess
KillsNever(cancelled) == FALSE
KillsOnCancel(cancelled) == cancelled

ProcKill ==
  /\ proc = "running"
  /\ spc # "idle"
  /\ KillsOnCancel(iterCancelled)
  /\ proc' = "killed"
  /\ UNCHANGED <<cfgVars, auxVars, persistVars, listVars, decodeVars, displayVars, runVars, watchVars, sigVars,
                 interruptCh, tuiVars, histVars, ioVars>>

\* ExecOnceStream, lines 194-225: the pipes, cmd.Start, the line channel,
\* the two readers and the closer.
StreamStart ==
  /\ pc = "exec"
  /\ spc = "idle"
  /\ proc = "running"
  /\ spc' = "range"
  /\ UNCHANGED <<cfgVars, auxVars, persistVars, listVars, decodeVars, displayVars, runVars, watchVars, sigVars,
                 interruptCh, tuiVars, histVars, proc, pipes, wrote, rpc, held, readWG,
                 lineCh, lineClosed, closes, panicked, mpc, ln, sout, called>>

\* readPipe, line 214: scanner.Scan returns a line, or false at the end of
\* the stream (the pipe is empty and the subprocess is gone), and then the
\* deferred readWG.Done runs.
ReaderScan(s) ==
  /\ spc # "idle"
  /\ rpc[s] = "scan"
  /\ IF pipes[s] # <<>>
       THEN /\ held' = [held EXCEPT ![s] = <<Head(pipes[s])>>]
            /\ pipes' = [pipes EXCEPT ![s] = Tail(@)]
            /\ rpc' = [rpc EXCEPT ![s] = "send"]
            /\ UNCHANGED readWG
       ELSE /\ proc # "running"
            /\ rpc' = [rpc EXCEPT ![s] = "done"]
            /\ readWG' = readWG - 1
            /\ UNCHANGED <<held, pipes>>
  /\ UNCHANGED <<cfgVars, auxVars, persistVars, listVars, decodeVars, displayVars, runVars, watchVars, sigVars,
                 interruptCh, tuiVars, histVars, proc, wrote, lineCh, lineClosed,
                 closes, panicked, mpc, spc, ln, sout, called>>

\* readPipe, line 215: lineCh <- outLine{...}; a send on a closed channel
\* panics.
ReaderSend(s) ==
  /\ rpc[s] = "send"
  /\ Len(lineCh) < LineCap
  /\ IF lineClosed
       THEN panicked' = TRUE /\ UNCHANGED lineCh
       ELSE lineCh' = Append(lineCh, held[s][1]) /\ UNCHANGED panicked
  /\ held' = [held EXCEPT ![s] = <<>>]
  /\ rpc' = [rpc EXCEPT ![s] = "scan"]
  /\ UNCHANGED <<cfgVars, auxVars, persistVars, listVars, decodeVars, displayVars, runVars, watchVars, sigVars,
                 interruptCh, tuiVars, histVars, proc, pipes, wrote, readWG,
                 lineClosed, closes, mpc, spc, ln, sout, called>>

\* lines 222-225: readWG.Wait() returns when both readers are done
ReadersDoneOne(wg) == wg <= 1
ReadersDone(wg) == wg = 0

\* lines 222-225: the closer closes the line channel.
CloseLines ==
  /\ spc # "idle"
  /\ mpc = "wait"
  /\ ReadersDone(readWG)
  /\ lineClosed' = TRUE
  /\ closes' = closes + 1
  /\ mpc' = "done"
  /\ UNCHANGED <<cfgVars, auxVars, persistVars, listVars, decodeVars, displayVars, runVars, watchVars, sigVars,
                 interruptCh, tuiVars, histVars, proc, pipes, wrote, rpc, held, readWG,
                 lineCh, panicked, spc, ln, sout, called>>

\* lines 228-230: the loop receives a line and appends it to the buffer.
RangeReceive ==
  /\ spc = "range"
  /\ lineCh # <<>>
  /\ ln' = <<Head(lineCh)>>
  /\ lineCh' = Tail(lineCh)
  /\ sout' = Append(sout, Head(lineCh))
  /\ spc' = "call"
  /\ UNCHANGED <<cfgVars, auxVars, persistVars, listVars, decodeVars, displayVars, runVars, watchVars, sigVars,
                 interruptCh, tuiVars, histVars, proc, pipes, wrote, rpc, held, readWG,
                 lineClosed, closes, panicked, mpc, called>>

\* lines 231-233: the calls of onLine made for a line; ExecOnce passes no
\* callback, the dashboard's execFn passes one (main.go 262-270).
OnLineCallsNone(fn, text) == <<>>
OnLineCalls(fn, text) == IF fn THEN <<text>> ELSE <<>>

RangeCall ==
  /\ spc = "call"
  /\ called' = called \o OnLineCalls(~noTUI, ln[1])
  /\ \E evs \in AppendOutcomes(faulty, EventsErr) :
       artifactErr' = IF ~noTUI THEN recordArtifactErr(artifactErr, evs) ELSE artifactErr
  /\ ln' = <<>>
  /\ spc' = "range"
  /\ UNCHANGED <<cfgVars, auxVars, exitErr, listVars, decodeVars, displayVars, runVars, watchVars, sigVars,
                 interruptCh, tuiVars, histVars, proc, pipes, wrote, rpc, held, readWG,
                 lineCh, lineClosed, closes, panicked, mpc, sout>>

\* line 228: the range loop ends when the channel is closed and empty.
RangeEnd ==
  /\ spc = "range"
  /\ lineCh = <<>>
  /\ lineClosed
  /\ spc' = "wait"
  /\ UNCHANGED <<cfgVars, auxVars, persistVars, listVars, decodeVars, displayVars, runVars, watchVars, sigVars,
                 interruptCh, tuiVars, histVars, proc, pipes, wrote, rpc, held, readWG,
                 lineCh, lineClosed, closes, panicked, mpc, ln, sout, called>>

\* cmd.Wait: the error of a killed subprocess, of one that exited with a
\* failure, and of one that exited with success -- when the context was
\* cancelled after that exit, Wait reports either nil or the context's error.
WaitErrs(p, cancelled) ==
  CASE p = "killed" -> {KilledErr}
    [] p = "exit1" -> ExecErrs
    [] OTHER -> IF cancelled THEN {Nil, CanceledErr} ELSE {Nil}

\* lines 236-237 and execWithInterrupt lines 139-140: cmd.Wait returns once
\* the subprocess is gone, ExecOnceStream returns the buffer and the error,
\* and stop is closed.
StreamReturn ==
  /\ pc = "exec"
  /\ spc = "wait"
  /\ proc # "running"
  /\ \E e \in WaitErrs(proc, iterCancelled) : err' = e
  /\ output' = sout
  /\ spc' = "returned"
  /\ stop' = TRUE
  /\ pc' = "drain"
  /\ log' = Logged(<<Ev("execReturn", iteration)>>)
  /\ count' = Tally(<<Ev("execReturn", iteration)>>, {})
  /\ UNCHANGED <<cfgVars, auxVars, persistVars, listVars, decodeVars, displayVars, iteration, completed, lastOutput,
                 interrupted, site, result, runErr, wpc, interruptedCh, iterCancelled,
                 orphans, sigVars, interruptCh, tuiVars, reports, decisions, dropped,
                 burst, requested, proc, pipes, wrote, rpc, held, readWG, lineCh,
                 lineClosed, closes, panicked, mpc, ln, sout, called>>

Subprocess ==
  \/ \E s \in Streams : ProcWrite(s)
  \/ \E status \in {"exit0", "exit1"} : ProcExit(status)
Readers == \E s \in Streams : ReaderScan(s) \/ ReaderSend(s)
RangeLoop == StreamStart \/ RangeReceive \/ RangeCall \/ RangeEnd \/ StreamReturn

\* One execution of the agent under the dashboard, step by step.
StreamInit ==
  /\ maxIterations = 0
  /\ agent = "pi"
  /\ faulty = FALSE
  /\ noTUI = FALSE
  /\ RunnerInit
  /\ DecodeIdle
  /\ DisplayIdle
  /\ ListIdle
  /\ StreamIdle
  /\ PersistIdle
  /\ AuxIdle

StreamNext ==
  \/ ParseRunOptions
  \/ RunStart
  \/ ExecStart
  \/ Subprocess
  \/ ProcKill
  \/ Readers
  \/ CloseLines
  \/ RangeLoop
  \/ ExecDrain
  \/ WatcherTake
  \/ WatcherExit
  \/ WatcherNotify
  \/ WatcherCancel
  \/ KeyPress

StreamSpec == StreamInit /\ [][StreamNext]_vars

\* Scheduling: the goroutines of ExecOnceStream and the watcher take their
\* steps, and the operating system delivers the kill; nothing is assumed of
\* the subprocess itself or of the user's keys.
StreamFairness ==
  /\ WF_vars(ParseRunOptions \/ RunStart \/ ExecStart \/ RangeLoop \/ ExecDrain)
  /\ WF_vars(WatcherTake \/ WatcherExit \/ WatcherNotify \/ WatcherCancel)
  /\ WF_vars(Readers)
  /\ WF_vars(CloseLines)
  /\ WF_vars(ProcKill)

LiveStreamSpec == StreamInit /\ [][StreamNext]_vars /\ StreamFairness

(* ---- specification ---- *)

RunNext ==
  \/ RunStart
  \/ LoopMaxReached
  \/ ExecStart
  \/ ExecReturn
  \/ ExecDrain
  \/ Report
  \/ Branch
  \/ PromptContinue
  \/ SendContinuePrompt
  \/ ReceiveContinue
  \/ SleepTimer
  \/ SleepInterrupted
  \/ SendRunFinished
  \/ ExecuteRunReturn
  \/ WatcherTake
  \/ WatcherExit
  \/ WatcherNotify
  \/ WatcherCancel
  \/ OrphanTake
  \/ OrphanExit
  \/ OsSignal
  \/ ForwarderReceive
  \/ ForwarderSend
  \/ UpdateMessage
  \/ KeyPress

Next ==
  \/ ParseRunOptions
  \/ RunNext

Spec == Init /\ [][Next]_vars

\* Run called with any Config, as its package's other callers may: the
\* arguments have not gone through parseRunOptions.
RunInit ==
  /\ maxIterations \in -1..MaxMaxIter
  /\ agent \in Agents
  /\ faulty = FALSE
  /\ noTUI \in BOOLEAN
  /\ pc = "run"
  /\ RunnerIdle
  /\ DecodeIdle
  /\ DisplayIdle
  /\ ListIdle
  /\ StreamIdle
  /\ PersistIdle
  /\ AuxIdle

RunSpec == RunInit /\ [][RunNext]_vars

\* The same program on an artifact store whose appends can fail.
PersistInit ==
  /\ maxIterations = 1
  /\ agent = "pi"
  /\ faulty = TRUE
  /\ noTUI \in BOOLEAN
  /\ RunnerInit
  /\ DecodeIdle
  /\ DisplayIdle
  /\ ListIdle
  /\ StreamIdle
  /\ PersistIdle
  /\ AuxIdle

PersistSpec == PersistInit /\ [][Next]_vars

\* Scheduling: every goroutine that can take a step eventually takes one --
\* the goroutine running Run (an agent execution and a sleep end in finite
\* time), the watcher of the current execution, a left-over watcher, the
\* signal forwarder and the dashboard's event loop.  Nothing is assumed of
\* the user's keys or of the signals the OS delivers.
RunnerStep ==
  \/ ParseRunOptions \/ RunStart \/ LoopMaxReached \/ ExecStart \/ ExecReturn
  \/ ExecDrain \/ Report \/ Branch \/ SendContinuePrompt \/ ReceiveContinue
  \/ SleepTimer \/ SleepInterrupted \/ SendRunFinished
WatcherStep == WatcherTake \/ WatcherExit \/ WatcherNotify \/ WatcherCancel
OrphanStep == OrphanTake \/ OrphanExit
ForwarderStep == ForwarderReceive \/ ForwarderSend

Fairness ==
  /\ WF_vars(RunnerStep)
  /\ WF_vars(WatcherStep)
  /\ WF_vars(OrphanStep)
  /\ WF_vars(ForwarderStep)
  /\ WF_vars(UpdateMessage)

LiveSpec == Init /\ [][Next]_vars /\ Fairness

(* ---- promptContinue (the terminal decision callback) ---- *)

\* The lines a user may type at the prompt, without their newline, and what
\* may follow the last newline of the input.
PromptLines ==
  {<<"y">>, <<"Y", "E", "S">>, <<SP, "y", "e", "s", SP>>, <<"n">>, <<"N", "o">>,
   <<"m">>, <<"y", "y">>, <<>>}
PromptTails == {<<>>, <<"y">>}
RECURSIVE PromptInputs(_)
PromptInputs(n) ==
  IF n = 0 THEN {<<>>}
  ELSE PromptInputs(n - 1)
         \cup {l \o <<NL>> \o rest : l \in PromptLines, rest \in PromptInputs(n - 1)}

WriteErr == "write error"
ReadErr == "read error"

YesWords == {<<"y">>, <<"y", "e", "s">>}
NoWords == {<<"n">>, <<"n", "o">>}

\* strings.ToLower(strings.TrimSpace(line)), line 333.
Normalise(line) == [i \in DOMAIN TrimSpace(line) |-> ToLower(TrimSpace(line)[i])]

\* The switch of lines 333-338.
promptDecisionByFirstLetter(line) ==
  CASE Normalise(line) # <<>> /\ Normalise(line)[1] = "y" -> "continue"
    [] Normalise(line) # <<>> /\ Normalise(line)[1] = "n" -> "stop"
    [] OTHER -> "again"
promptDecision(line) ==
  CASE Normalise(line) \in YesWords -> "continue"
    [] Normalise(line) \in NoWords -> "stop"
    [] OTHER -> "again"

PromptReturn(c, e) ==
  /\ ppc' = "done"
  /\ promptCont' = c
  /\ promptErr' = e

\* Lines 321-323: the prompt is written; a failed write is returned.
PromptWrite ==
  /\ ppc = "prompt"
  /\ \E ok \in BOOLEAN :
       IF ok
         THEN /\ ppc' = "read"
              /\ prompts' = prompts + 1
              /\ UNCHANGED <<promptCont, promptErr>>
         ELSE /\ PromptReturn(FALSE, WriteErr)
              /\ UNCHANGED prompts
  /\ UNCHANGED <<stdin, promptLine, eof>>
  /\ UNCHANGED <<cfgVars, persistVars, runVars, watchVars, sigVars, interruptCh, tuiVars,
                 histVars, decodeVars, displayVars, listVars, streamVars, wrapVars, convVars>>

\* Lines 325-331: reader.ReadString('\n') returns the text up to and with
\* the next newline; without one it returns what is left together with
\* io.EOF, and the function returns false and no error; any other error of
\* the reader is returned.
PromptRead ==
  /\ ppc = "read"
  /\ \E ok \in BOOLEAN :
       IF ~ok
         THEN /\ PromptReturn(FALSE, ReadErr)
              /\ UNCHANGED <<stdin, promptLine, eof>>
         ELSE IF FirstNL(stdin) = 0
           THEN /\ promptLine' = stdin
                /\ stdin' = <<>>
                /\ eof' = TRUE
                /\ PromptReturn(FALSE, Nil)
           ELSE /\ promptLine' = SubSeq(stdin, 1, FirstNL(stdin))
                /\ stdin' = SubSeq(stdin, FirstNL(stdin) + 1, Len(stdin))
                /\ ppc' = "switch"
                /\ UNCHANGED <<promptCont, promptErr, eof>>
  /\ UNCHANGED prompts
  /\ UNCHANGED <<cfgVars, persistVars, runVars, watchVars, sigVars, interruptCh, tuiVars,
                 histVars, decodeVars, displayVars, listVars, streamVars, wrapVars, convVars>>

\* Lines 333-342: y and yes return true, n and no return false, any other
\* line is answered with "Please answer y or n." and the loop starts over;
\* a failed write of that answer is returned.
PromptSwitch ==
  /\ ppc = "switch"
  /\ CASE promptDecision(promptLine) = "continue" -> PromptReturn(TRUE, Nil)
       [] promptDecision(promptLine) = "stop" -> PromptReturn(FALSE, Nil)
       [] OTHER ->
            \E ok \in BOOLEAN :
              IF ok
                THEN /\ ppc' = "prompt"
                     /\ UNCHANGED <<promptCont, promptErr>>
                ELSE PromptReturn(FALSE, WriteErr)
  /\ UNCHANGED <<stdin, promptLine, prompts, eof>>
  /\ UNCHANGED <<cfgVars, persistVars, runVars, watchVars, sigVars, interruptCh, tuiVars,
                 histVars, decodeVars, displayVars, listVars, streamVars, wrapVars, convVars>>

\* promptContinue(os.Stdin, os.Stdout) as OnInterrupt calls it (line 235),
\* on every input of at most MaxAnswers lines.
PromptInit ==
  /\ maxIterations = 0
  /\ agent = "pi"
  /\ faulty = FALSE
  /\ noTUI = TRUE
  /\ pc = "onInterrupt"
  /\ RunnerIdle
  /\ DecodeIdle
  /\ DisplayIdle
  /\ ListIdle
  /\ StreamIdle
  /\ PersistIdle
  /\ stdin \in {i \o t : i \in PromptInputs(MaxAnswers), t \in PromptTails}
  /\ ppc = "prompt"
  /\ promptLine = <<>>
  /\ promptCont = FALSE
  /\ promptErr = Nil
  /\ prompts = 0
  /\ eof = FALSE
  /\ WrapIdle
  /\ ConvIdle

PromptNext == PromptWrite \/ PromptRead \/ PromptSwitch

PromptSpec == PromptInit /\ [][PromptNext]_vars

(* ---- WrapLine (soft-wrapping of a line to a pane's width) ---- *)

\* A character of two columns (a CJK ideograph) beside the one-column "a".
Han == "han"
WrapRunes == {"a", SP, Han}

\* runewidth.RuneWidth and runewidth.StringWidth.
RuneWidth(r) == IF r = Han THEN 2 ELSE 1
RECURSIVE StringWidth(_)
StringWidth(s) == IF s = <<>> THEN 0 ELSE RuneWidth(Head(s)) + StringWidth(Tail(s))

\* strings.Split(line, " "), line 23.
FirstSP(s) ==
  IF \E i \in DOMAIN s : s[i] = SP
    THEN CHOOSE i \in DOMAIN s : s[i] = SP /\ \A j \in 1..(i - 1) : s[j] # SP
    ELSE 0
RECURSIVE Split(_)
Split(s) ==
  IF FirstSP(s) = 0 THEN <<s>>
  ELSE <<SubSeq(s, 1, FirstSP(s) - 1)>> \o Split(SubSeq(s, FirstSP(s) + 1, Len(s)))

\* Lines 34-38 and 68: the current line is appended to the result.
Flush(st) == [result |-> Append(st.result, st.cur), cur |-> <<>>, curW |-> 0]

\* Lines 40-54: the word is cut into chunks; the last chunk stays the
\* current line.
\* Line 43: the next character does not fit the chunk.
ChunkFullByRunes(chunkW, rw, w) == chunkW + 1 > w
ChunkFull(chunkW, rw, w) == chunkW + rw > w
RECURSIVE HardBreak(_, _, _)
HardBreak(word, w, st) ==
  IF word = <<>> THEN st
  ELSE LET rw == RuneWidth(Head(word))
           fl == IF ChunkFull(st.curW, rw, w) THEN Flush(st) ELSE st
       IN HardBreak(Tail(word), w,
            [result |-> fl.result, cur |-> Append(fl.cur, Head(word)),
             curW |-> fl.curW + rw])

\* Lines 28-76: the loop over the words, from word i on.
RECURSIVE WrapWords(_, _, _, _)
WrapWords(words, i, w, st) ==
  IF i > Len(words) THEN st
  ELSE LET word == words[i]
           ww == StringWidth(word)
           sep == IF st.curW > 0 THEN 1 ELSE 0
           spaced == IF i > 1 /\ st.curW > 0
                       THEN [cur |-> Append(st.cur, SP), curW |-> st.curW + 1]
                       ELSE [cur |-> st.cur, curW |-> st.curW]
       IN IF ww > w
            THEN WrapWords(words, i + 1, w,
                   HardBreak(word, w,
                     [result |-> IF st.curW > 0 THEN Append(st.result, st.cur)
                                                ELSE st.result,
                      cur |-> <<>>, curW |-> 0]))
          ELSE IF st.curW + sep + ww > w
            THEN WrapWords(words, i + 1, w,
                   [result |-> Append(st.result, st.cur), cur |-> word, curW |-> ww])
          ELSE WrapWords(words, i + 1, w,
                   [result |-> st.result, cur |-> spaced.cur \o word,
                    curW |-> spaced.curW + ww])

\* WrapLine, lines 14-85.
WrapLine(line, w) ==
  IF w <= 0 THEN <<line>>
  ELSE IF StringWidth(line) <= w THEN <<line>>
  ELSE LET st == WrapWords(Split(line), 1, w, [result |-> <<>>, cur |-> <<>>, curW |-> 0])
       IN IF st.curW > 0 THEN Append(st.result, st.cur) ELSE st.result

RECURSIVE WrapInputs(_)
WrapInputs(n) ==
  IF n = 0 THEN {<<>>}
  ELSE WrapInputs(n - 1) \cup {Append(l, r) : l \in WrapInputs(n - 1), r \in WrapRunes}

\* A call of WrapLine.
Wrap ==
  /\ ~wrapDone
  /\ wrapped' = WrapLine(wrapLine, wrapWidth)
  /\ wrapDone' = TRUE
  /\ UNCHANGED <<wrapLine, wrapWidth>>
  /\ UNCHANGED <<cfgVars, persistVars, runVars, watchVars, sigVars, interruptCh, tuiVars,
                 histVars, decodeVars, displayVars, listVars, streamVars, promptVars, convVars>>

\* WrapLine on every line of at most MaxWrapLen characters and every width
\* up to MaxWidth.
WrapInit ==
  /\ maxIterations = 0
  /\ agent = "pi"
  /\ faulty = FALSE
  /\ noTUI = FALSE
  /\ RunnerInit
  /\ DecodeIdle
  /\ DisplayIdle
  /\ ListIdle
  /\ StreamIdle
  /\ PersistIdle
  /\ PromptIdle
  /\ wrapLine \in WrapInputs(MaxWrapLen)
  /\ wrapWidth \in 0..MaxWidth
  /\ wrapped = <<>>
  /\ wrapDone = FALSE
  /\ ConvIdle

WrapSpec == WrapInit /\ [][Wrap]_vars

(* ---- EventConverter.Convert on the events of a message, with the text itself ---- *)

\* The events of a message: a start with its role, an update carrying a text
\* delta, and an end.
MessageStart(role) == [Type |-> "message_start", Role |-> role, Delta |-> <<>>]
MessageDelta(d) == [Type |-> "text_delta", Role |-> "", Delta |-> d]
MessageEnd == [Type |-> "message_end", Role |-> "", Delta |-> <<>>]
MessageEvents ==
  {MessageStart(r) : r \in {"user", "assistant", "toolResult"}}
    \cup {MessageDelta(d) : d \in {<<"a">>, <<"b">>, <<>>}}
    \cup {MessageEnd}

\* A display event of a message: its type, its detail and whether it is the
\* final ("done") variant.
MessageDisplay(type, detail, final) == [Type |-> type, Detail |-> detail, Final |-> final]

\* strings.Builder.WriteString, line 202.
WriteStringInFront(text, d) == d \o text
WriteString(text, d) == text \o d

\* Convert, lines 139-255 without the thinking cases: the converter
\* afterwards and the display events returned.  The detail of a user
\* message is left out.
ConvertMessage(c, ev) ==
  CASE ev.Type = "message_start" /\ ev.Role = "user" ->
         [converter |-> c, out |-> <<MessageDisplay("user_msg", <<>>, FALSE)>>]
    [] ev.Type = "message_start" /\ ev.Role = "assistant" ->
         [converter |-> [assistantText |-> <<>>, inAssistant |-> TRUE],
          out |-> <<MessageDisplay("assistant_text", <<>>, FALSE)>>]
    [] ev.Type = "message_start" /\ ev.Role \notin {"user", "assistant"} ->
         [converter |-> c, out |-> <<>>]
    [] ev.Type = "text_delta" ->
         [converter |-> [c EXCEPT !.assistantText = WriteString(@, ev.Delta)],
          out |-> <<MessageDisplay("assistant_text",
                                   WriteString(c.assistantText, ev.Delta), FALSE)>>]
    [] ev.Type = "message_end" ->
         IF c.inAssistant
           THEN [converter |-> [c EXCEPT !.inAssistant = FALSE],
                 out |-> IF c.assistantText # <<>>
                           THEN <<MessageDisplay("assistant_text", c.assistantText, TRUE)>>
                           ELSE <<>>]
           ELSE [converter |-> c, out |-> <<>>]

\* One call of Convert on a fresh converter's next event.
ConvertCall ==
  /\ Len(convHist) < MaxConvEvents
  /\ \E ev \in MessageEvents :
       /\ conv' = ConvertMessage(conv, ev).converter
       /\ convOut' = ConvertMessage(conv, ev).out
       /\ convHist' = Append(convHist, ev)
  /\ UNCHANGED <<cfgVars, persistVars, runVars, watchVars, sigVars, interruptCh, tuiVars,
                 histVars, decodeVars, displayVars, listVars, streamVars, promptVars, wrapVars>>

\* NewEventConverter, lines 110-113.
ConvInit ==
  /\ maxIterations = 0
  /\ agent = "pi"
  /\ faulty = FALSE
  /\ noTUI = FALSE
  /\ RunnerInit
  /\ DecodeIdle
  /\ DisplayIdle
  /\ ListIdle
  /\ StreamIdle
  /\ PersistIdle
  /\ AuxIdle

ConvSpec == ConvInit /\ [][ConvertCall]_vars

(* ---- vocabulary of the properties ---- *)

Returned == pc \in {"returned", "finished"}
Count(e) == count[e]
LastReport == reports[Len(reports)]
LastDecision == decisions[Len(decisions)]
\* The last report has been delivered but Run has not yet acted on it.
Pending == pc = "branch"
\* Clean executions reported and acted upon.
CleanActedOn ==
  Count("clean") - (IF Pending /\ Len(reports) > 0 /\ Clean(LastReport) THEN 1 ELSE 0)
LastEvents(a, b) ==
  /\ Len(log) >= 2
  /\ log[Len(log) - 1].ev = a
  /\ log[Len(log)].ev = b

\* C1: when executions 1..k-1 return cleanly without a genuine marker line,
\* no sleep between them is interrupted, and execution k returns cleanly with
\* a genuine marker line, Run returns completed with IterationsCompleted = k
\* and a nil error, having started exactly k executions and k-1 sleeps.
\* (k is the number of reports: the property is stated of the last report,
\* so a run that went on after such an execution violates it on the way.)
C1_CompletedAtK ==
  ( /\ Len(reports) > 0
    /\ Count("markerless") = Count("report") - 1
    /\ Count("sleepInterrupted") = 0
    /\ Clean(LastReport) /\ HasGenuineLine(LastReport.Output)
    /\ ~Pending )
  => /\ Returned
     /\ result.Status = StatusCompleted
     /\ result.IterationsCompleted = Count("report")
     /\ runErr = Nil
     /\ LastReport.Iteration = Count("report")
     /\ Count("execStart") = Count("report")
     /\ Count("sleepStart") = Count("report") - 1

C1_Witness ==
  /\ Returned
  /\ result.Status = StatusCompleted
  /\ result.IterationsCompleted = 2
  /\ Count("report") = 2
  /\ Count("markerless") = 1

\* C2: with MaxIterations = m > 0, when every execution returns cleanly
\* without a genuine marker line and no sleep is interrupted, Run never
\* starts more than m executions, and when it returns it has performed
\* exactly m and returns max_iterations_reached, IterationsCompleted = m, nil.
C2_MaxIterationsReached ==
  ( /\ maxIterations > 0
    /\ Count("markerless") = Count("report")
    /\ Count("sleepInterrupted") = 0 )
  => /\ Count("execStart") <= maxIterations
     /\ Returned =>
          /\ result.Status = StatusMaxIterationsReached
          /\ result.IterationsCompleted = maxIterations
          /\ runErr = Nil
          /\ Count("execStart") = maxIterations
          /\ Count("report") = maxIterations

C2_Witness ==
  /\ Returned
  /\ maxIterations = 2
  /\ result.Status = StatusMaxIterationsReached
  /\ result.IterationsCompleted = 2
  /\ Count("execStart") = 2
  /\ Count("markerless") = 2
  /\ Count("sleepInterrupted") = 0

\* The last decision was taken after an interrupted execution (site "exec")
\* or an interrupted sleep (site "sleep") and answered stop without an error.
StopAt(s) ==
  /\ Len(decisions) > 0
  /\ LastDecision.site = s /\ ~LastDecision.cont /\ LastDecision.err = Nil

RetryStarts ==
  /\ LastEvents("decideReturn", "execStart")
  /\ LastDecision.site = "exec"

\* The report of an execution carries the sequence number it started with.
ReportedAsStarted ==
  \A i \in DOMAIN log :
    (log[i].ev = "report" /\ i > 2)
    => /\ log[i - 2].ev = "execStart" /\ log[i - 2].it = log[i].it
       /\ i = Len(log) => LastReport.Iteration = log[i].it

C5_ExecError ==
  (Len(reports) > 0 /\ LastReport.Err # Nil /\ ~LastReport.Interrupted /\ ~Pending)
  => /\ Returned
     /\ runErr = LastReport.Err
     /\ result.Status = StatusFailed
     /\ result.IterationsCompleted = Count("clean")
     /\ LastEvents("report", "return")

C5_Witness ==
  /\ Returned
  /\ Count("report") = 2
  /\ LastReport.Err \in ExecErrs /\ ~LastReport.Interrupted
  /\ result.Status = StatusFailed
  /\ result.IterationsCompleted = 1

\* C6: a decision callback that returns an error, after an interrupted
\* execution or an interrupted sleep, is the last thing Run does: it returns
\* that error with status failed and the completed count the callback found.
C6_DecisionError ==
  (Len(decisions) > 0 /\ LastDecision.err # Nil)
  => /\ Returned
     /\ runErr = LastDecision.err
     /\ result.Status = StatusFailed
     /\ result.IterationsCompleted = LastDecision.completed
     /\ LastEvents("decideReturn", "return")

C6_Witness ==
  /\ Returned
  /\ Count("decideReturn") = 2
  /\ Count("retry") = 1
  /\ LastDecision.site = "sleep" /\ LastDecision.err \in DecisionErrs
  /\ result.IterationsCompleted = 1

\* The decision that follows an interrupted sleep is called once: the log
\* continues decideCall, decideReturn, then the return or the next execution.
SleepDecisionOnce(p) ==
  /\ p + 1 <= Len(log) /\ log[p + 1].ev = "decideCall"
  /\ p + 2 <= Len(log) => log[p + 2].ev = "decideReturn"
  /\ p + 3 <= Len(log) => log[p + 3].ev \in {"return", "execStart"}

NextExecutionIsSuccessor(p) ==
  (p + 3 <= Len(log) /\ log[p + 3].ev = "execStart") => log[p + 3].it = log[p].it + 1

C8_SingleSlot ==
  /\ [](Len(interruptCh) <= InterruptCap)
  /\ [](fwd = "select" => ENABLED ForwarderSend)
  /\ [][(fwd = "select" /\ fwd' = "range" /\ Len(interruptCh) = InterruptCap)
          => (interruptCh' = interruptCh /\ dropped')]_vars

C8_Witness ==
  /\ dropped
  /\ Len(interruptCh) = InterruptCap

\* C9 as stated, for the interrupts of one execution: when every interrupt
\* of the run was delivered while the same execution was in progress, the
\* decision callback is called at most once in the run.
C9_Original ==
  burst >= 1 => Count("decideCall") <= 1

\* C10: at most one execution is in progress; every execution but the first
\* starts right after a sleep or a decision has finished, when every earlier
\* execution has returned and been reported.
C10_Sequential ==
  /\ Count("execStart") - Count("execReturn") = (IF pc = "exec" THEN 1 ELSE 0)
  /\ \A i \in DOMAIN log :
       (log[i].ev = "execStart" /\ i > 1)
       => log[i - 1].ev \in {"sleepEnd", "decideReturn"}
  /\ pc = "exec"
       => /\ Count("report") = Count("execReturn")
          /\ Count("decideReturn") = Count("decideCall")
          /\ Count("sleepEnd") + Count("sleepInterrupted") = Count("sleepStart")

C10_Witness ==
  /\ Count("execStart") = 2
  /\ Count("decideReturn") = 1
  /\ pc = "exec"

\* The iteration report of the execution that returned last has been made.
Reported == pc \notin {"exec", "drain", "report"}

\* C11: every execution is followed by exactly one iteration report, made
\* after the execution has returned and before the decision callback for
\* that execution is called; the report carries the output execFn returned
\* and the interrupted flag, which is set whenever the watcher cancelled the
\* execution before execFn returned.
C11_ReportOncePerExecution ==
  /\ [](Count("report") = Count("execReturn") - (IF pc \in {"drain", "report"} THEN 1 ELSE 0))
  /\ [](\A i \in DOMAIN log :
          /\ (log[i].ev = "report" /\ i > 1)
               => log[i - 1] = Ev("execReturn", log[i].it)
          /\ (log[i].ev = "decideCall" /\ i > 1 /\ log[i - 1].ev # "sleepInterrupted")
               => log[i - 1] = Ev("report", log[i].it)
          /\ (log[i].ev = "execReturn" /\ i < Len(log))
               => log[i + 1].ev = "report")
  /\ []((LastEvents("execReturn", "report") \/ LastEvents("report", "decideCall"))
          => LastReport = [Iteration |-> iteration, Output |-> output,
                           Err |-> err, Interrupted |-> interrupted])
  /\ []((pc = "onInterrupt" /\ site = "exec") => LastReport.Interrupted)
  /\ [][(pc = "drain" /\ pc' = "report" /\ iterCancelled) => interrupted']_vars

C11_Witness ==
  /\ pc = "onInterrupt"
  /\ site = "exec"
  /\ LastEvents("report", "decideCall")
  /\ LastReport.Interrupted
  /\ LastReport.Output = <<PlainLine>>
  /\ Count("report") = 1

\* C17: the dashboard is in the continue/stop sub-state only while the
\* Runner is inside the decision callback, blocked on the decision channel
\* with no answer in it yet.
C17_AwaitingOnlyWhileBlocked ==
  awaitingContinue
  => /\ ~noTUI
     /\ pc = "awaitContinue"
     /\ Len(continueCh) = 0
     /\ inbox # "continuePrompt"

C17_Witness ==
  /\ awaitingContinue
  /\ pc = "awaitContinue"
  /\ site = "sleep"
  /\ Count("decideReturn") = 1

\* C18: in the sub-state only y and n have an effect: the key leaves the
\* sub-state and puts exactly one answer on the decision channel (continue
\* for y, stop for n), and that answer is what the decision callback returns;
\* every other key changes nothing.
C18_DecisionKeys ==
  /\ [](Len(continueCh) <= ContinueCap)
  /\ [](Len(continueCh) > 0 => pc = "awaitContinue" /\ ~awaitingContinue)
  /\ [][\A k \in Keys :
          (awaitingContinue /\ Key(k))
          => IF k \in {"y", "n"}
               THEN /\ ~awaitingContinue'
                    /\ continueCh' = <<k = "y">>
                    /\ UNCHANGED <<interruptCh, inbox, running, quit>>
               ELSE FALSE]_vars
  /\ [][ReceiveContinue
          => /\ decisions'[1].cont = Head(continueCh)
             /\ decisions'[1].err = Nil
             /\ continueCh' = <<>>
             /\ pc' = IF Head(continueCh) THEN "loop" ELSE "returned"]_vars

C18_Witness ==
  /\ ~awaitingContinue
  /\ Len(decisions) = 1
  /\ ~decisions[1].cont
  /\ result.Status = StatusInterrupted
  /\ pc = "finished"
  /\ ~noTUI

\* The run was cut short by the bound on the passes of the loop.
AtBound == pc = "loop" /\ ~MaxReached(completed, maxIterations) /\ iteration > MaxPasses

\* An interrupt notification is on its way to the decision callback: pending
\* in the interrupt channel, held by the watcher of the execution that is
\* still to be drained, recorded in the interrupted flag of a report that is
\* still to be acted on, or already inside the decision callback.
InFlight ==
  \/ Len(interruptCh) > 0
  \/ pc \in {"exec", "drain"} /\ (wpc \in {"got", "sent"} \/ Len(interruptedCh) > 0)
  \/ pc \in {"report", "branch"} /\ interrupted
  \/ pc \in {"onInterrupt", "awaitContinue"}

\* C19 as stated: Ctrl+C during an active run does not quit the dashboard
\* but leaves an interrupt notification pending, and every such request is
\* eventually followed by the continue prompt or by the end of the run: until
\* then its notification must stay on its way to the decision callback.  (A
\* run cut short by the bound on the passes counts as answered when the
\* notification is still pending there, since the next execution or sleep
\* would receive it.)
C19_Original ==
  /\ [][(Key("ctrl+c") /\ ~awaitingContinue /\ running)
          => (~quit' /\ Len(interruptCh') = InterruptCap /\ requested')]_vars
  /\ [](requested => (awaitingContinue \/ Returned \/ InFlight))
  /\ (requested ~> (awaitingContinue \/ Returned \/ (AtBound /\ Len(interruptCh) > 0)))

(* ---- properties of the text functions ---- *)

\* The lines of a text, named by the position of their first piece: a line
\* starts at the beginning of the text or after a newline and runs up to the
\* next newline or the end of the text.  Empty lines have no position.
LineStarts(text) ==
  {a \in DOMAIN text : text[a] # NL /\ (a = 1 \/ text[a - 1] = NL)}
LineEnd(text, a) ==
  CHOOSE b \in a..Len(text) :
    /\ \A k \in a..b : text[k] # NL
    /\ b = Len(text) \/ text[b + 1] = NL
LineAt(text, a) == SubSeq(text, a, LineEnd(text, a))
IsInk(piece) == piece # SP
Ink(line) == SelectSeq(line, IsInk)
NonBlankStarts(text) == {a \in LineStarts(text) : Ink(LineAt(text, a)) # <<>>}
Nth(S, i) == CHOOSE a \in S : Cardinality({b \in S : b < a}) = i - 1

\* The spellings of "reply with:" that differ only in case.
ReplyWithSpellings == {ReplyWith, ReplyWithTitle}
GenuineMarkerLine(text) ==
  \E a \in LineStarts(text) :
    /\ \E k \in a..LineEnd(text, a) : text[k] = Sentinel
    /\ \A k \in a..LineEnd(text, a) : text[k] \notin ReplyWithSpellings

\* C12: HasCompletionMarker is true exactly when some line contains the
\* sentinel and that line does not contain "reply with:" in any case.
C12_MarkerDetection ==
  "HasCompletionMarker" \in applied
  => (markerFound <=> GenuineMarkerLine(rawOutput))

C12_Witness ==
  /\ "HasCompletionMarker" \in applied
  /\ rawOutput = <<ReplyWithTitle, SP, Sentinel>>
  /\ ~markerFound

\* C13: ParseOutput always returns, with exactly one event for every line
\* that is not blank and none for a blank line, in the order of the lines,
\* whether or not the line is JSON.
C13_DecodingTotal ==
  /\ "ParseOutput" \notin applied => ENABLED AppendIteration
  /\ "ParseOutput" \in applied
       => /\ Len(parsed) = Cardinality(NonBlankStarts(rawOutput))
          /\ \A i \in DOMAIN parsed :
               /\ parsed[i].Type \in {"raw_line", "assistant", "json_event"}
               /\ Ink(parsed[i].Content \o parsed[i].Raw)
                    = Ink(LineAt(rawOutput, Nth(NonBlankStarts(rawOutput), i)))

C13_Witness ==
  /\ "ParseOutput" \in applied
  /\ rawOutput = <<Words, NL, NL, JsonObject>>
  /\ Len(parsed) = 2
  /\ parsed[1].Type = "raw_line"
  /\ parsed[2].Type = "assistant"

\* C14 as stated: every line that is not a JSON object yields a raw_line
\* event whose content is the line, piece for piece.
C14_Original ==
  "ParseOutput" \in applied
  => \A i \in DOMAIN parsed :
       LET line == LineAt(rawOutput, Nth(NonBlankStarts(rawOutput), i)) IN
         Ink(line) # <<JsonObject>>
         => /\ parsed[i].Type = "raw_line"
            /\ parsed[i].Content = line

(* ---- properties of the event view ---- *)

TextDelta == RawEvent("text_delta", 0, "", FALSE)
ToolEnd(id, isErr) == RawEvent("tool_execution_end", 0, id, isErr)
AssistantEntries(evs, it) ==
  {i \in DOMAIN evs : evs[i].Type = "assistant_text" /\ evs[i].Iteration = it}
LastIsAssistantText(evs, it) ==
  Len(evs) > 0 /\ evs[Len(evs)].Type = "assistant_text" /\ evs[Len(evs)].Iteration = it

PendingToolBlocks(bs, id) == {i \in ToolBlocks(bs, id) : ~bs[i].ToolDone}

\* C16 as stated: a tool-execution-end with call id X marks done, with its
\* error flag, the last tool-call block with that id that is still pending
\* and changes no other block; without such a block it changes no block.
C16_Original ==
  [][\A id \in CallIDs, e \in BOOLEAN :
       HandleRawEvent(ToolEnd(id, e))
       => IF PendingToolBlocks(blocks, id) = {}
            THEN blocks' = blocks
            ELSE /\ Len(blocks') = Len(blocks)
                 /\ \A i \in DOMAIN blocks :
                      IF i = Last(PendingToolBlocks(blocks, id))
                        THEN blocks'[i].ToolDone /\ blocks'[i].ToolError = e
                        ELSE blocks'[i] = blocks[i]]_vars

\* C20 as stated: unarmed, q or ctrl+c only arms and records the key; armed,
\* the key that armed quits and every other key disarms without quitting.
C20_Original ==
  [][\A k \in ModelKeys :
       HandleKey(k)
       => IF ~confirmQuit
            THEN k \in {"q", "ctrl+c"}
                   => confirmQuit' /\ confirmCtrlC' = (k = "ctrl+c") /\ ~quitCmd'
            ELSE IF k = (IF confirmCtrlC THEN "ctrl+c" ELSE "q")
                   THEN quitCmd'
                   ELSE ~confirmQuit' /\ ~quitCmd']_vars

\* C20 amended: unarmed, q or ctrl+c only arms and records the key and no
\* other key arms; armed by ctrl+c a second ctrl+c quits, armed by q the key
\* y quits; armed, every other key (a second q included) disarms without
\* quitting.
C20_QuitConfirmation ==
  [][\A k \in ModelKeys :
       HandleKey(k)
       => IF ~confirmQuit
            THEN /\ ~quitCmd'
                 /\ confirmQuit' = (k \in {"q", "ctrl+c"})
                 /\ confirmQuit' => confirmCtrlC' = (k = "ctrl+c")
            ELSE IF k = (IF confirmCtrlC THEN "ctrl+c" ELSE "y")
                   THEN quitCmd'
                   ELSE ~confirmQuit' /\ ~quitCmd']_vars

C20_Witness ==
  /\ quitCmd
  /\ confirmQuit
  /\ ~confirmCtrlC

(* ---- properties of the view's keys and panes ---- *)

\* C21: armed by q only y quits and armed by ctrl+c only ctrl+c quits; any
\* other key pressed while armed only clears the armed flag, leaving the
\* cursor, the focus, the scroll offsets and raw mode as they were; and no
\* key pressed while unarmed quits.
C21_ArmedKeys ==
  [][\A k \in AllKeys :
       HandleKey(k)
       => IF confirmQuit
            THEN IF k = (IF confirmCtrlC THEN "ctrl+c" ELSE "y")
                   THEN quitCmd'
                   ELSE /\ ~quitCmd'
                        /\ ~confirmQuit'
                        /\ UNCHANGED <<cursor, focusedPane, detailScroll, streamScroll,
                                       mainScroll, rawMode, autoScroll, mainAutoScroll,
                                       confirmCtrlC, events, blocks>>
            ELSE ~quitCmd']_vars

C21_Witness ==
  /\ quitCmd
  /\ confirmCtrlC
  /\ focusedPane = 2
  /\ rawMode
  /\ detailScroll = 2

CursorKeys == {"j", "k", "g", "G"}

\* C22 as stated: after a cursor key handled with the stream pane focused
\* and a list that is not empty, auto-follow is on exactly when the cursor
\* is on the last element of the list.
C22_Original ==
  [][\A k \in CursorKeys :
       (HandleKey(k) /\ ~confirmQuit /\ focusedPane = 1 /\ Len(events) > 0)
       => (autoScroll' = (cursor' = Len(events') - 1))]_vars

\* C23: when a display event is appended to the list, with auto-follow on
\* the cursor becomes the index of the new last element and the detail
\* offset becomes 0; with auto-follow off both stay as they were.
C23_AppendFollows ==
  [][\A ev \in ViewRawEvents :
       (HandleRawEvent(ev) /\ Len(events') = Len(events) + 1)
       => IF autoScroll
            THEN cursor' = Len(events') - 1 /\ detailScroll' = 0
            ELSE UNCHANGED <<cursor, detailScroll>>]_vars

C23_Witness ==
  /\ ~autoScroll
  /\ Len(events) = 2
  /\ cursor = 0
  /\ detailScroll = 1
  /\ fed = 2

\* View draws the panes once the terminal size is known.
Drawn == height # 0

\* C25 as stated: on every render the offset used to pick the visible lines
\* of a pane lies between 0 and the number of content lines minus the
\* visible height (or 0 when that is negative), in the main pane, the detail
\* pane and the stream pane.
C25_Original ==
  Drawn =>
    /\ MainScrollUsed(Model)
         \in 0..MaxScroll(MainLineCount(Model), mainHeight(height) - 1)
    /\ DetailScrollUsed(Model)
         \in 0..MaxScroll(DetailLineCount(Model), paneHeight(height) - 1)
    /\ StreamScrollUsed(Model)
         \in 0..MaxScroll(Len(events), paneHeight(height) - 1)

\* The pane that ctrl+d and ctrl+u scroll, the offset it is drawn at, its
\* last offset and the size of a page.
PagedScrollUsed(m) ==
  IF m.focusedPane = 0 THEN MainScrollUsed(m) ELSE DetailScrollUsed(m)
PagedMaxScroll(m) ==
  IF m.focusedPane = 0
    THEN MaxScroll(MainLineCount(m), mainHeight(m.height) - 1)
    ELSE MaxScroll(DetailLineCount(m), paneHeight(m.height) - 1)
PagedPageSize(m) ==
  IF m.focusedPane = 0 THEN PageSize(mainHeight(m.height)) ELSE PageSize(paneHeight(m.height))

\* C26 as stated: ctrl+d moves the position the pane is drawn at down by a
\* page unless the bottom of the content stops it, and ctrl+u moves it up by
\* a page unless the top stops it.
C26_Original ==
  [][/\ (HandleKey("ctrl+d") /\ ~confirmQuit /\ Drawn)
          => PagedScrollUsed(Model)'
               = Min2(PagedScrollUsed(Model) + PagedPageSize(Model), PagedMaxScroll(Model))
     /\ (HandleKey("ctrl+u") /\ ~confirmQuit /\ Drawn)
          => PagedScrollUsed(Model)'
               = Max2(PagedScrollUsed(Model) - PagedPageSize(Model), 0)]_vars

\* C24 as stated: the selected index of the dashboard stays between 0 and
\* the last index of the event list (0 for an empty list), whatever keys are
\* pressed and whatever events arrive.
C24_Original ==
  0 <= selected /\ selected <= Max2(0, Len(liveEvents) - 1)

(* ---- properties of ExecOnceStream ---- *)

\* The lines of one stream in a sequence of lines, and the first k lines of
\* a stream in the order they were written.
FromStream(seq, s) == SelectSeq(seq, LAMBDA l : l.src = s)
Written(s, k) == [i \in 1..k |-> Line(s, i)]
StreamReturned == spc = "returned"

\* C27: the line channel is closed at most once and only when both readers
\* have finished, no reader sends on it after the close, and ExecOnceStream
\* has returned only when the channel is closed and empty and the subprocess
\* has been waited for.
C27_CloseAfterReaders ==
  /\ closes <= 1
  /\ lineClosed = (closes = 1)
  /\ lineClosed => \A s \in Streams : rpc[s] = "done"
  /\ ~panicked
  /\ StreamReturned => (lineClosed /\ lineCh = <<>> /\ proc # "running")

C27_Witness ==
  /\ StreamReturned
  /\ closes = 1
  /\ Len(sout) = 2 * MaxLines

\* C28: with a callback, onLine has been called once for every line in the
\* buffer, in the buffer's order (the line being appended is the only one
\* still to be passed); the lines of each stream are in the buffer in the
\* order they were written and none twice; and when ExecOnceStream has
\* returned every line written to either stream is in the buffer.
C28_LinesOnceInOrder ==
  /\ ~noTUI => called = (IF spc = "call" THEN SubSeq(sout, 1, Len(sout) - 1) ELSE sout)
  /\ \A s \in Streams :
       /\ FromStream(sout, s) = Written(s, Len(FromStream(sout, s)))
       /\ StreamReturned => Len(FromStream(sout, s)) = wrote[s]

C28_Witness ==
  /\ StreamReturned
  /\ Len(sout) = 3
  /\ sout[1].src = "stderr"
  /\ sout[2].src = "stdout"
  /\ sout[3] = Line("stderr", 2)
  /\ called = sout

\* The watcher has taken an interrupt while execFn is running.
InterruptConsumed == pc = "exec" /\ wpc \in {"got", "sent"}

C30_Original ==
  (maxIterations < 0 \/ agent \notin KnownAgents)
    => /\ proc = "none"
       /\ Count("report") = 0
       /\ Returned => runErr # Nil

(* ---- properties of Run's results ---- *)

\* C34: an execution flagged interrupted makes Run go to the interrupt
\* decision with the completed count unchanged and without returning,
\* whatever the execution's error and output are.
C34_InterruptedFlagAlone ==
  [][(pc = "branch" /\ interrupted /\ pc' # pc)
       => /\ pc' = "onInterrupt"
          /\ completed' = completed
          /\ result' = result
          /\ runErr' = runErr]_vars

C34_Witness ==
  /\ pc = "onInterrupt"
  /\ site = "exec"
  /\ interrupted
  /\ err # Nil
  /\ HasCompletionMarker(output)
  /\ completed = 1

\* C35: the completed count never decreases; it grows by one, and only on
\* the branch after an execution that returned no error and was not
\* interrupted; with a positive maximum it never exceeds the maximum, and no
\* execution starts once it has reached the maximum.
C35_CompletedCount ==
  /\ [][/\ completed' >= completed
        /\ completed' # completed
             => /\ completed' = completed + 1
                /\ pc = "branch"
                /\ err = Nil
                /\ ~interrupted]_vars
  /\ [](maxIterations > 0 => completed <= maxIterations)
  /\ [][(pc # "exec" /\ pc' = "exec")
          => ~(maxIterations > 0 /\ completed >= maxIterations)]_vars

C35_Witness ==
  /\ pc = "returned"
  /\ maxIterations = MaxMaxIter
  /\ completed = MaxMaxIter
  /\ result.Status = StatusMaxIterationsReached

\* C38 as stated: when execWithInterrupt finishes an execution whose watcher
\* has taken a notification from the interrupt channel, the execution is
\* flagged interrupted (and Run then calls the decision callback for it).
C38_Original ==
  [][(pc = "drain" /\ wpc \in {"got", "sent"} /\ pc' = "report") => interrupted']_vars

\* C40: a returned status failed comes with an error, and a returned status
\* completed, interrupted or max_iterations_reached comes with none.
C40_StatusErrorAgree ==
  Returned =>
    /\ result.Status = StatusFailed => runErr # Nil
    /\ result.Status \in {StatusCompleted, StatusInterrupted, StatusMaxIterationsReached}
         => runErr = Nil

C40_Witness ==
  /\ Returned
  /\ result.Status = StatusFailed
  /\ runErr \in DecisionErrs
  /\ result.IterationsCompleted = 1

(* ---- properties of the main pane's blocks ---- *)

\* C39 as stated, in its weakest reading (the blocks need not even be
\* distinct): every assistant_text entry of the event list has an
\* assistant-text block of the same iteration holding the same text.
C39_Original ==
  \A i \in DOMAIN events :
    events[i].Type = "assistant_text"
      => \E j \in DOMAIN blocks :
           /\ blocks[j].Kind = "assistant_text"
           /\ blocks[j].Iteration = events[i].Iteration
           /\ blocks[j].Text = events[i].Detail

(* ---- properties of the artifacts' persistence ---- *)

C33_PromptContinue ==
  /\ [](ppc = "done" =>
          /\ promptCont => (promptErr = Nil /\ ~eof /\ Normalise(promptLine) \in YesWords)
          /\ (~promptCont /\ promptErr = Nil) => (eof \/ Normalise(promptLine) \in NoWords)
          /\ eof => (promptErr = Nil /\ ~promptCont))
  /\ [][(ppc = "switch" /\ Normalise(promptLine) \notin (YesWords \cup NoWords))
          => (ppc' = "prompt" \/ (ppc' = "done" /\ promptErr' = WriteErr))]_vars
  /\ [][(ppc = "prompt" /\ ppc' = "read") => prompts' = prompts + 1]_vars

\* A line that is no answer was read, the prompt was written a second time,
\* and "YES" then returned true.
C33_Witness ==
  /\ ppc = "done"
  /\ promptCont
  /\ prompts = 2
  /\ promptLine = <<"Y", "E", "S", NL>>

(* ---- properties of WrapLine ---- *)

RECURSIVE Flatten(_)
Flatten(ss) == IF ss = <<>> THEN <<>> ELSE Head(ss) \o Flatten(Tail(ss))
NonSpace(s) == SelectSeq(s, LAMBDA r : r # SP)

\* The numbers of non-space characters before the line breaks of a result.
LineEnds(out) == {Len(NonSpace(Flatten(SubSeq(out, 1, k)))) : k \in 1..(Len(out) - 1)}
\* The numbers of non-space characters before the spaces of a line.
WordEnds(line) ==
  {Len(NonSpace(SubSeq(line, 1, i))) : i \in {j \in DOMAIN line : line[j] = SP}}
    \cup {0, Len(NonSpace(line))}
\* Position e lies strictly inside a word that is wider than w.
InsideLongWord(line, e, w) ==
  \E k \in DOMAIN Split(line) :
    LET before == Len(Flatten(SubSeq(Split(line), 1, k - 1)))
    IN /\ before < e
       /\ e < before + Len(Split(line)[k])
       /\ StringWidth(Split(line)[k]) > w

\* What the result of WrapLine is to satisfy: no line wider than the width,
\* the characters other than spaces kept in their order, and a break inside
\* a word only where the word is wider than the width.
WrapFits == \A k \in DOMAIN wrapped : StringWidth(wrapped[k]) <= wrapWidth
WrapKeepsText == NonSpace(Flatten(wrapped)) = NonSpace(wrapLine)
WrapBreaksAtSpaces ==
  \A e \in LineEnds(wrapped) :
    e \in WordEnds(wrapLine) \/ InsideLongWord(wrapLine, e, wrapWidth)

LastEvent == convHist[Len(convHist)]
AssistantStarts(h) == {i \in DOMAIN h : h[i] = MessageStart("assistant")}
LastAssistantStart(h) ==
  IF AssistantStarts(h) = {} THEN 0
  ELSE CHOOSE i \in AssistantStarts(h) : \A j \in AssistantStarts(h) : j <= i
\* The text deltas of h after position n, concatenated in their order.
RECURSIVE DeltasAfter(_, _)
DeltasAfter(h, n) ==
  IF Len(h) <= n THEN <<>>
  ELSE DeltasAfter(SubSeq(h, 1, Len(h) - 1), n)
         \o (IF h[Len(h)].Type = "text_delta" THEN h[Len(h)].Delta ELSE <<>>)
TextSinceStart(h) == DeltasAfter(h, LastAssistantStart(h))
\* An assistant message-start of h has no message-end after it.
AssistantOpen(h) ==
  /\ AssistantStarts(h) # {}
  /\ \A i \in DOMAIN h : i > LastAssistantStart(h) => h[i] # MessageEnd

\* The events are those of whole messages: a message starts when none is
\* open, text deltas come inside an assistant message, and an end closes the
\* open message.
Starts(h) == {i \in DOMAIN h : h[i].Type = "message_start"}
LastStart(h) == IF Starts(h) = {} THEN 0 ELSE CHOOSE i \in Starts(h) : \A j \in Starts(h) : j <= i
MessageOpen(h) ==
  /\ Starts(h) # {}
  /\ \A i \in DOMAIN h : i > LastStart(h) => h[i] # MessageEnd
WellFormed(h) ==
  \A i \in DOMAIN h :
    LET p == SubSeq(h, 1, i - 1)
    IN CASE h[i].Type = "message_start" -> ~MessageOpen(p)
         [] h[i].Type = "text_delta" -> MessageOpen(p) /\ p[LastStart(p)].Role = "assistant"
         [] OTHER -> MessageOpen(p)

StartEmpties ==
  (convHist # <<>> /\ LastEvent = MessageStart("assistant"))
    => /\ conv.assistantText = <<>>
       /\ convOut = <<MessageDisplay("assistant_text", <<>>, FALSE)>>
DeltaEmitsConcatenation ==
  (convHist # <<>> /\ LastEvent.Type = "text_delta" /\ AssistantStarts(convHist) # {})
    => /\ convOut = <<MessageDisplay("assistant_text", TextSinceStart(convHist), FALSE)>>
       /\ conv.assistantText = TextSinceStart(convHist)

\* C37 as stated: an assistant message-start empties the accumulator, every
\* following text-delta emits the concatenation of the deltas since the most
\* recent assistant message-start, and a message-end emits a final
\* assistant_text event if and only if the accumulated text is non-empty
\* (stated here for streams of whole messages only).
C37_Original ==
  /\ StartEmpties
  /\ DeltaEmitsConcatenation
  /\ (convHist # <<>> /\ LastEvent = MessageEnd /\ WellFormed(convHist))
       => (convOut = <<MessageDisplay("assistant_text", conv.assistantText, TRUE)>>
             <=> conv.assistantText # <<>>)

\* C37, amended: the same, except that only the first message-end after an
\* assistant message-start emits the final event, and only if the accumulated
\* text is non-empty; every other message-end emits nothing.
C37_AssistantText ==
  /\ StartEmpties
  /\ DeltaEmitsConcatenation
  /\ (convHist # <<>> /\ LastEvent = MessageEnd)
       => /\ convOut = <<MessageDisplay("assistant_text", conv.assistantText, TRUE)>>
               <=> (AssistantOpen(SubSeq(convHist, 1, Len(convHist) - 1))
                      /\ conv.assistantText # <<>>)
          /\ convOut # <<>> => convOut = <<MessageDisplay("assistant_text", conv.assistantText, TRUE)>>

\* An assistant message of two deltas ends with its final event.
C37_Witness ==
  /\ convHist = <<MessageStart("assistant"), MessageDelta(<<"a">>), MessageDelta(<<"b">>), MessageEnd>>
  /\ convOut = <<MessageDisplay("assistant_text", <<"a", "b">>, TRUE)>>

TypeOK ==
  /\ Len(interruptCh) <= 5
  /\ pc \in {"parse", "usage", "run", "loop", "exec", "drain", "report", "branch",
             "onInterrupt", "awaitContinue", "sleep", "returned", "finished"}

====
